---- MODULE Spec2Model ----
(***************************************************************************)
(* Model of the portfolio agent: the agent loop of AnthropicService, the   *)
(* tool contract (BaseTool.safe_execute, ToolError.create) and the         *)
(* ToolRegistry dispatch.                                                  *)
(*                                                                         *)
(* A Python call is modelled by an operator that yields a record           *)
(*   [exc |-> kind, msg |-> text, val |-> value]                           *)
(* with exc = "none" for a normal return (val is the returned value) and   *)
(* exc = the exception's class name otherwise (msg is str(exception), a     *)
(* tuple of the text's parts).                                             *)
(* Only classes below Exception are modelled: every try block of the       *)
(* source catches Exception or one of its subclasses.                      *)
(***************************************************************************)
EXTENDS Integers, Sequences, FiniteSets, TLC

VARIABLES
    pc,         \* position of the specification's process
    t_in,       \* tool layer: the drawn call (tool name, kwargs, what execute does)
    t_out,      \* tool layer: what safe_execute and execute_tool answered
    e_in,       \* tool requests: the drawn content blocks and what each tool does
    e_out,      \* tool requests: what _execute_tool_requests answered
    x_in,       \* extraction: the drawn final response and request
    x_out,      \* extraction: what _extract_final_portfolio answered
    request,    \* agent loop: the parameters of the generate_portfolio call
    iteration,  \* agent loop: the loop counter of _agent_loop
    messages,   \* agent loop: the conversation
    calls,      \* agent loop: the LLM calls made (what was sent, what came back)
    executions, \* agent loop: the Registry executions made, in order
    outcome,    \* agent loop: what generate_portfolio returned or raised
    api_error,  \* agent loop: the error client.messages.create raised, if any
    cache_enabled,      \* cache: FirestoreCache.cache_enabled
    store,              \* cache: the documents of the collection, by key
    now,                \* cache: the clock, in hours
    reachable_at_init,  \* cache: whether the store answered the constructor
    c_last,             \* cache: the last operation and its answer
    m_last,             \* macro tool: the last execute and its result
    registry_tools,     \* registry: ToolRegistry._tools, the tool held under each name
    registered,         \* registry: the tools passed to register, in call order
    g_in,    \* projected growth: the drawn arguments
    g_out,    \* projected growth: what _calculate_projected_growth answered
    f_in,    \* fallback: the request data generate_hardcoded_portfolio is given
    f_out,    \* fallback: the portfolio it returned
    h_in,    \* handler: the HTTP request and what the service does with it
    h_out,    \* handler: the HTTP response
    anthropic_service,   \* handler: the module's _anthropic_service
    frames,   \* concurrent calls: the local variables of each generate_portfolio call
    heap      \* concurrent calls: the list objects the calls have created

toolVars == <<t_in, t_out>>
execVars == <<e_in, e_out>>
extractVars == <<x_in, x_out>>
loopVars == <<request, iteration, messages, calls, executions, outcome, api_error>>

cacheVars == <<cache_enabled, store, now, reachable_at_init, c_last>>
macroVars == <<m_last>>
registryVars == <<registry_tools, registered>>
fallbackVars == <<f_in, f_out>>
httpVars == <<h_in, h_out, anthropic_service>>
concurrentVars == <<frames, heap>>
unitVars == <<g_in, g_out, fallbackVars, httpVars, concurrentVars>>

vars == <<pc, toolVars, execVars, extractVars, loopVars, cacheVars, macroVars, registryVars, unitVars>>

\* Python's None where a string is expected, and where a value is expected.
None == "None"
NoneVal == [none |-> TRUE]

\* ------------------------------------------------------------ exceptions

Return(v) == [exc |-> "none", msg |-> <<>>, val |-> v]

Raise(kind, m) == [exc |-> kind, msg |-> m, val |-> NoneVal]

Raised(r) == r.exc # "none"

\* F applied to the value of x, which is evaluated once.
Bind(x, F(_)) == CHOOSE r \in {F(v) : v \in {x}} : TRUE

\* A call that gives keyword arguments only binds when every keyword names a
\* parameter and every parameter without a default is given; a call that
\* does not bind raises TypeError before the function's body runs.
CallBinds(parameters, required, keywords) ==
    keywords \subseteq parameters /\ required \subseteq keywords

\* The exception classes the model draws from; all are subclasses of Exception.
ExceptionKinds == {"ValueError", "TypeError", "AttributeError", "KeyError", "RuntimeError"}

\* ------------------------------------------------------------ tools/base.py

API_RATE_LIMIT == "API_RATE_LIMIT"
API_UNAVAILABLE == "API_UNAVAILABLE"
API_TIMEOUT == "API_TIMEOUT"
INVALID_PARAMETERS == "INVALID_PARAMETERS"
DATA_PARSE_ERROR == "DATA_PARSE_ERROR"
CACHE_STALE == "CACHE_STALE"
UNKNOWN_ERROR == "UNKNOWN_ERROR"

ErrorCodes ==
    {API_RATE_LIMIT, API_UNAVAILABLE, API_TIMEOUT, INVALID_PARAMETERS,
     DATA_PARSE_ERROR, CACHE_STALE, UNKNOWN_ERROR}

WARNING == "warning"
ERROR == "error"

ToolErrorCreateWithoutSuccess(code, message, severity, user_message, technical_details) ==
    [error |-> message,
     error_code |-> code,
     severity |-> severity,
     user_message |-> IF user_message = None THEN message ELSE <<user_message>>,
     technical_details |-> technical_details]

\* ToolError.create; a user_message of None falls back to the message.
ToolErrorCreate(code, message, severity, user_message, technical_details) ==
    [error |-> message,
     error_code |-> code,
     severity |-> severity,
     user_message |-> IF user_message = None THEN message ELSE <<user_message>>,
     technical_details |-> technical_details,
     success |-> FALSE]

\* A dict is a record; result.get('success', True).
GetSuccess(result) ==
    IF "success" \in DOMAIN result THEN result.success ELSE TRUE

\* ------------------------------------------------------------ the tools' execute

\* The keyword arguments of a tool call as far as the call binding sees them:
\* they fit execute's signature or they do not. The names are those that
\* **kwargs of safe_execute and of execute_tool binds, that is, names other
\* than these functions' own parameters (self, tool_name).
GoodKwargs == "kwargs_ok"
BadKwargs == "kwargs_mismatch"
KwargsSet == {GoodKwargs, BadKwargs}

\* What a tool's execute does with well-formed arguments: the environment's
\* choice (stores, networks and upstream APIs decide it).
SuccessDict == [success |-> TRUE, data |-> "payload", from_cache |-> FALSE]

\* A success dict holding a value json.dumps cannot serialize (a datetime).
UnserializableDict == [success |-> TRUE, data |-> "datetime", from_cache |-> FALSE]

FailureDicts ==
    {ToolErrorCreate(c, <<"tool failed">>, s, None, <<None>>) :
        c \in {INVALID_PARAMETERS, API_UNAVAILABLE}, s \in {WARNING, ERROR}}

\* The returned value of an execute that returns something that is no dict.
NonDict == [not_a_dict |-> TRUE]

ExecOutcomes ==
    {Return(SuccessDict), Return(UnserializableDict), Return(NonDict)}
    \cup {Return(f) : f \in FailureDicts}
    \cup {Raise(k, <<"boom">>) : k \in ExceptionKinds}

\* tool.execute(**kwargs): arguments that do not fit the signature make the
\* call itself raise TypeError; otherwise the tool does what the
\* environment decides (out).
Execute(kwargs, out) ==
    IF kwargs = BadKwargs
    THEN Raise("TypeError", <<"execute() got an unexpected keyword argument">>)
    ELSE out

SafeExecuteHandlerValueErrorOnly(kind) == kind = "ValueError"

\* except Exception as e, in safe_execute
SafeExecuteHandler(kind) == kind \in ExceptionKinds

IsDict(v) == "not_a_dict" \notin DOMAIN v

\* The try block of safe_execute: execute, then result.get(...) on the
\* returned value.
SafeExecuteTry(kwargs, out) ==
    Bind(Execute(kwargs, out),
         LAMBDA r : IF ~Raised(r) /\ ~IsDict(r.val)
                    THEN Raise("AttributeError", <<"object has no attribute 'get'">>)
                    ELSE r)

\* The except branch of safe_execute, for the outcome of its try block.
SafeExecuteExcept(body) ==
    IF Raised(body) /\ SafeExecuteHandler(body.exc)
    THEN Return(ToolErrorCreate(UNKNOWN_ERROR, body.msg, ERROR,
                    "An unexpected error occurred while retrieving data",
                    <<body.exc, body.msg>>))
    ELSE body

\* BaseTool.safe_execute
SafeExecute(kwargs, out) == Bind(SafeExecuteTry(kwargs, out), SafeExecuteExcept)

\* ------------------------------------------------------------ tools/tool_registry.py

MacroTool == "get_macro_economic_data"
StockUniverseTool == "get_stocks_by_country"
StockFundamentalsTool == "get_stock_fundamentals"
MarketSentimentTool == "get_market_sentiment"

\* A tool object: what its name property returns, and which object it is.
Tool(name, instance) == [name |-> name, instance |-> instance]

\* self._tools = {}
EmptyRegistry == <<>>

\* ToolRegistry.register: _tools[tool.name] = tool
Register(tools, tool) ==
    [n \in DOMAIN tools \cup {tool.name} |-> IF n = tool.name THEN tool ELSE tools[n]]

\* ToolRegistry._register_tools: the tools it registers. The registration of
\* the market sentiment tool is commented out in the source.
RegisterTools ==
    Register(Register(Register(EmptyRegistry, Tool(MacroTool, 1)),
                      Tool(StockUniverseTool, 1)),
             Tool(StockFundamentalsTool, 1))

\* MacroEconomicDataTool.__init__(self, alpha_vantage_key, fred_key): neither
\* parameter has a default.
MacroToolParameters == {"alpha_vantage_key", "fred_key"}

\* ToolRegistry.__init__: self._tools = {}, then _register_tools, whose
\* first statement is macro_tool = MacroEconomicDataTool(), a call without
\* arguments. The outcome is the registry's _tools, or the exception.
ToolRegistryInit ==
    IF ~CallBinds(MacroToolParameters, MacroToolParameters, {})
    THEN Raise("TypeError", <<"__init__() missing 2 required positional arguments">>)
    ELSE Return(RegisterTools)

\* ToolRegistry.get_anthropic_tools: one spec for each registered tool
GetAnthropicTools(tools) == DOMAIN tools

\* ToolRegistry.get_tool
GetTool(tools, name) ==
    IF name \notin DOMAIN tools
    THEN Raise("ValueError", <<"Tool not found", name>>)
    ELSE Return(tools[name])

ExecuteToolHandlerKeyErrorOnly(kind) == kind = "KeyError"

\* except ValueError as e, in execute_tool
ExecuteToolHandler(kind) == kind = "ValueError"

\* The try block of execute_tool: get_tool, then tool.safe_execute. The
\* outcome carries executed: whether safe_execute, and with it the tool's
\* execute, was invoked.
ExecuteToolTry(tools, tool_name, kwargs, out) ==
    IF Raised(GetTool(tools, tool_name))
    THEN GetTool(tools, tool_name) @@ [executed |-> FALSE]
    ELSE SafeExecute(kwargs, out) @@ [executed |-> TRUE]

\* The except branch of execute_tool, for the outcome of its try block.
ExecuteToolExcept(body) ==
    IF Raised(body) /\ ExecuteToolHandler(body.exc)
    THEN Return(ToolErrorCreate(UNKNOWN_ERROR, body.msg, ERROR,
                    "Requested tool not available", <<None>>))
         @@ [executed |-> body.executed]
    ELSE body

\* ToolRegistry.execute_tool
ExecuteTool(tools, tool_name, kwargs, out) ==
    Bind(ExecuteToolTry(tools, tool_name, kwargs, out), ExecuteToolExcept)

\* ------------------------------------------------------------ anthropic_service.py: tool requests

\* Content blocks of an assistant response.
TextBlock(text) == [type |-> "text", text |-> text]

ToolUseBlock(id, name, input) == [type |-> "tool_use", id |-> id, name |-> name, input |-> input]

\* json.dumps(result): the text that encodes the dict, or TypeError for a
\* value JSON cannot encode.
JsonSerializable(d) == ~("data" \in DOMAIN d /\ d.data = "datetime")

JsonDumps(d) ==
    IF JsonSerializable(d)
    THEN Return([json |-> d])
    ELSE Raise("TypeError", <<"Object of type datetime is not JSON serializable">>)

\* The tool_result block of the normal path (no is_error key) ...
ToolResultBlock(tool_use_id, content) ==
    [type |-> "tool_result", tool_use_id |-> tool_use_id, content |-> content]

\* ... and the one the except branch builds.
ToolResultErrorBlock(tool_use_id, e) ==
    [type |-> "tool_result",
     tool_use_id |-> tool_use_id,
     content |-> [json |-> [error |-> e.msg, error_code |-> UNKNOWN_ERROR, success |-> FALSE]],
     is_error |-> TRUE]

ToolRequestHandlerValueErrorOnly(kind) == kind = "ValueError"

\* except Exception as e, in _execute_tool_requests
ToolRequestHandler(kind) == kind \in ExceptionKinds

PrependResult(results, block) == <<block>> \o results

\* tool_results.append(block)
AppendResult(results, block) == Append(results, block)

\* One entry of the log of Registry executions.
Execution(block, r) ==
    [name |-> block.name, input |-> block.input, id |-> block.id,
     executed |-> r.executed, result |-> r.val]

\* The try block for one tool_use block, given the answer r of execute_tool:
\* result.get(...), then json.dumps(result) for the block to append.
ToolRequestTry(r) ==
    IF Raised(r) THEN Raise(r.exc, r.msg) ELSE JsonDumps(r.val)

\* The rest of the pass, given the outcome of the try block: the block
\* appended by the try block or by the except branch, or the exception that
\* escapes.
ToolRequestExcept(block, dumped) ==
    IF ~Raised(dumped)
    THEN Return(ToolResultBlock(block.id, dumped.val))
    ELSE IF ToolRequestHandler(dumped.exc)
         THEN Return(ToolResultErrorBlock(block.id, dumped))
         ELSE dumped

\* One pass of the for loop of _execute_tool_requests for a tool_use block:
\* the block appended or the escaping exception, with the log entry of the
\* Registry execution.
ExecuteOneRequest(tools, block, out) ==
    LET Finish(r) ==
            Bind(ToolRequestTry(r), LAMBDA dumped : ToolRequestExcept(block, dumped))
            @@ [entry |-> Execution(block, r)]
    IN  Bind(ExecuteTool(tools, block.name, block.input, out), Finish)

\* Whether the loop of _execute_tool_requests handles this block.
IsToolUse(block) == block.type = "tool_use"

\* The for loop over content_blocks[1..i], given what the pass for each
\* tool_use block yields (ones[i]): the call's outcome so far. An exception
\* that escapes a pass ends the call there.
RECURSIVE ToolRequestsLoop(_, _, _)
ToolRequestsLoop(content_blocks, ones, i) ==
    IF i = 0
    THEN [exc |-> "none", msg |-> <<>>, val |-> <<>>, log |-> <<>>]
    ELSE LET Step(acc) ==
                IF Raised(acc) \/ ~IsToolUse(content_blocks[i])
                THEN acc
                ELSE [exc |-> ones[i].exc,
                      msg |-> ones[i].msg,
                      val |-> IF Raised(ones[i]) THEN acc.val
                              ELSE AppendResult(acc.val, ones[i].val),
                      log |-> Append(acc.log, ones[i].entry)]
         IN  Bind(ToolRequestsLoop(content_blocks, ones, i - 1), Step)

ExecuteToolRequestsRetrying(tools, content_blocks, outs) ==
    LET Loop(ones) == ToolRequestsLoop(content_blocks, ones, Len(content_blocks))
        Retried(r) == [r EXCEPT !.log = r.log \o r.log]
    IN  Retried(Bind([i \in DOMAIN content_blocks |->
                        IF IsToolUse(content_blocks[i])
                        THEN ExecuteOneRequest(tools, content_blocks[i], outs[i])
                        ELSE Return(NoneVal) @@ [entry |-> NoneVal]],
                     Loop))

\* AnthropicService._execute_tool_requests: val is the returned tool_results
\* list, log the Registry executions made, in order. outs[i] is what the
\* tool requested by block i does when executed.
ExecuteToolRequests(tools, content_blocks, outs) ==
    LET Loop(ones) == ToolRequestsLoop(content_blocks, ones, Len(content_blocks))
    IN  Bind([i \in DOMAIN content_blocks |->
                IF IsToolUse(content_blocks[i])
                THEN ExecuteOneRequest(tools, content_blocks[i], outs[i])
                ELSE Return(NoneVal) @@ [entry |-> NoneVal]],
             Loop)

\* ------------------------------------------------------------ anthropic_service.py: extraction

\* A text is a sequence of tokens: "ws" (a run of whitespace, newlines
\* included), "fence" (a code fence of three backquotes), "json" (the
\* language tag) and payload
\* tokens, each standing for one piece of text free of whitespace and fences.
Ws == "ws"
Fence == "fence"
JsonTag == "json"

\* JSON values carry their Python type: json.loads yields dict, list, str,
\* number or None.
JDict(d) == [t |-> "dict", v |-> d]
JList(l) == [t |-> "list", v |-> l]
JStr(x) == [t |-> "str", v |-> <<x>>]
JNum(n) == [t |-> "num", v |-> n]
JNull == [t |-> "null", v |-> 0]

Stock(symbol, allocation) ==
    JDict([symbol |-> JStr(symbol), allocation |-> JNum(allocation)])

\* The payloads: what each payload token's text is as JSON. A token that is
\* not in the domain is text that is no JSON document.
Payloads ==
    [P_ok |->
        JDict([recommendations |-> JList(<<Stock("AAPL", 60), Stock("MSFT", 40)>>),
               totalExpectedReturn |-> JNum(10),
               riskScore |-> JNum(55)]),
     P_missing |->
        JDict([recommendations |-> JList(<<Stock("AAPL", 100)>>),
               totalExpectedReturn |-> JNum(10)]),
     P_notlist |->
        JDict([recommendations |-> Stock("AAPL", 100),
               totalExpectedReturn |-> JNum(10),
               riskScore |-> JNum(55)]),
     P_empty |->
        JDict([recommendations |-> JList(<<>>),
               totalExpectedReturn |-> JNum(10),
               riskScore |-> JNum(55)]),
     P_strreturn |->
        JDict([recommendations |-> JList(<<Stock("AAPL", 100)>>),
               totalExpectedReturn |-> JStr("ten"),
               riskScore |-> JNum(55)]),
     P_extra |->
        JDict([recommendations |-> JList(<<Stock("AAPL", 50), Stock("XOM", 50)>>),
               totalExpectedReturn |-> JNum(25),
               riskScore |-> JNum(40),
               error |-> JStr("model error"),
               generatedAt |-> JStr("yesterday"),
               projectedGrowth |-> JList(<<>>),
               summary |-> JStr("note")]),
     P_badsum |->
        JDict([recommendations |-> JList(<<Stock("AAPL", 60), Stock("MSFT", 20)>>),
               totalExpectedReturn |-> JNum(10),
               riskScore |-> JNum(55)]),
     P_array |->
        JList(<<JStr("recommendations"), JStr("totalExpectedReturn"), JStr("riskScore")>>),
     P_number |-> JNum(7)]

GarbagePayload == "P_garbage"

PayloadTokens == DOMAIN Payloads \cup {GarbagePayload}

\* str.strip()
RECURSIVE LStrip(_)
LStrip(text) ==
    IF text # <<>> /\ Head(text) = Ws THEN LStrip(Tail(text)) ELSE text

RECURSIVE RStrip(_)
RStrip(text) ==
    IF text # <<>> /\ text[Len(text)] = Ws
    THEN RStrip(SubSeq(text, 1, Len(text) - 1))
    ELSE text

Strip(text) == RStrip(LStrip(text))

\* str.startswith(token)
StartsWith(text, token) == text # <<>> /\ Head(text) = token

\* token in text
Contains(text, token) == \E i \in DOMAIN text : text[i] = token

FirstIndex(text, token) ==
    CHOOSE i \in DOMAIN text : text[i] = token /\ \A j \in 1..(i - 1) : text[j] # token

LastIndex(text, token) ==
    CHOOSE i \in DOMAIN text : text[i] = token /\ \A j \in (i + 1)..Len(text) : text[j] # token

\* text.split(token, 1)[1], for a text that contains the token
AfterFirst(text, token) == SubSeq(text, FirstIndex(text, token) + 1, Len(text))

\* text.rsplit(token, 1)[0], for a text that contains the token
BeforeLast(text, token) == SubSeq(text, 1, LastIndex(text, token) - 1)

StripFencesKeepingTag(text_content) ==
    LET Close(opened) == IF Contains(opened, Fence)
                         THEN BeforeLast(opened, Fence)
                         ELSE opened
        Unfence(content) ==
            IF StartsWith(content, Fence)
            THEN Strip(Bind(AfterFirst(content, Fence), Close))
            ELSE content
    IN  Bind(Strip(text_content), Unfence)

\* Lines 296-306: strip, and for a text that starts with a fence drop the
\* opening fence, a json tag right after it and the last fence with all
\* that follows, then strip again.
StripFences(text_content) ==
    LET Untag(opened) == IF StartsWith(opened, JsonTag) THEN Tail(opened) ELSE opened
        Close(untagged) == IF Contains(untagged, Fence)
                           THEN BeforeLast(untagged, Fence)
                           ELSE untagged
        Unfence(content) ==
            IF StartsWith(content, Fence)
            THEN Strip(Bind(Bind(AfterFirst(content, Fence), Untag), Close))
            ELSE content
    IN  Bind(Strip(text_content), Unfence)

\* json.loads(content): whitespace around one JSON document is accepted;
\* anything else is a JSONDecodeError.
JsonLoads(content) ==
    Bind(Strip(content),
         LAMBDA doc : IF Len(doc) = 1 /\ doc[1] \in DOMAIN Payloads
                      THEN Return(Payloads[doc[1]])
                      ELSE Raise("JSONDecodeError", <<"Expecting value">>))

ParseFailureReraised(e) == e

\* Lines 309-314: the except branch re-raises a parse failure as ValueError.
ParseFailure(e) == Raise("ValueError", <<"Invalid JSON response from Claude">> \o e.msg)

RequiredFields == <<"recommendations", "totalExpectedReturn", "riskScore">>

\* field in portfolio_data, for a parsed value that supports "in" with a
\* string (dict: a key; list: an element). No payload is a bare JSON string.
FieldIn(field, data) ==
    CASE data.t = "dict" -> field \in DOMAIN data.v
      [] data.t = "list" -> \E i \in DOMAIN data.v : data.v[i] = JStr(field)

SupportsIn(data) == data.t \in {"dict", "list"}

NoMissingFields(data) == <<>>

\* missing_fields = [f for f in required_fields if f not in portfolio_data]
MissingFields(data) == SelectSeq(RequiredFields, LAMBDA f : ~FieldIn(f, data))

\* n/d rounded to the nearest integer, for non-negative n and d = 1 or even
RoundDiv(n, d) == (n + (d \div 2)) \div d

\* An amount of money is held in thousandths, so that an amount can have
\* more decimals than the two a projected value is rounded to.
Amount(units, thousandths) == units * 1000 + thousandths

RECURSIVE Gcd(_, _)
Gcd(a, b) == IF b = 0 THEN a ELSE Gcd(b, a % b)

\* 1 + annual_return_pct / 100 as a fraction in lowest terms, for a
\* percentage of -100 or more.
GrowthNum(annual_return_pct) == (100 + annual_return_pct) \div Gcd(100 + annual_return_pct, 100)

GrowthDen(annual_return_pct) == 100 \div Gcd(100 + annual_return_pct, 100)

\* initial_amount * ((1 + annual_return_pct / 100) ** year), rounded to 2
\* decimals; the value is held in hundredths. Rounding is to the nearest
\* hundredth; the amounts drawn are such that no value lies halfway.
ProjectedValue(initial_amount, annual_return_pct, year) ==
    RoundDiv(initial_amount * GrowthNum(annual_return_pct) ^ year,
             10 * GrowthDen(annual_return_pct) ^ year)

CalculateProjectedGrowthShort(initial_amount, annual_return_pct, years) ==
    IF annual_return_pct.t # "num"
    THEN Raise("TypeError", <<"unsupported operand type(s) for /">>)
    ELSE IF years < 0
         THEN Raise("IndexError", <<"list index out of range">>)
         ELSE Return([y \in 1..years |->
                        [year |-> y - 1,
                         projectedValue |->
                            ProjectedValue(initial_amount, annual_return_pct.v, y - 1)]])

\* AnthropicService._calculate_projected_growth
CalculateProjectedGrowth(initial_amount, annual_return_pct, years) ==
    IF annual_return_pct.t # "num"
    THEN Raise("TypeError", <<"unsupported operand type(s) for /">>)
    ELSE IF years < 0
         THEN Raise("IndexError", <<"list index out of range">>)
         ELSE Return([y \in 1..(years + 1) |->
                        [year |-> y - 1,
                         projectedValue |->
                            ProjectedValue(initial_amount, annual_return_pct.v, y - 1)]])

\* AnthropicService._get_timestamp
Timestamp == "now"

\* d[key] = value on a dict
DictSet(d, key, value) ==
    [k \in DOMAIN d \cup {key} |-> IF k = key THEN value ELSE d[k]]

\* Lines 285-293: the text of the first text block; None without one.
TextBlocks(content) == SelectSeq(content, LAMBDA b : b.type = "text")

HasText(content) == TextBlocks(content) # <<>> /\ TextBlocks(content)[1].text # <<>>

CompleteKeepingModelFields(data, growth) ==
    IF Raised(growth)
    THEN growth
    ELSE Return(JDict(
            data.v @@ [projectedGrowth |-> JList(growth.val),
                       generatedAt |-> JStr(Timestamp), error |-> JNull]))

\* Lines 330-346: the portfolio completed with the growth table, the
\* timestamp and error = None; growth is what _calculate_projected_growth
\* answered.
Complete(data, growth) ==
    IF Raised(growth)
    THEN growth
    ELSE Return(JDict(
            DictSet(DictSet(DictSet(data.v,
                "projectedGrowth", JList(growth.val)),
                "generatedAt", JStr(Timestamp)),
                "error", JNull)))

\* Lines 316-346, on the parsed value.
ValidateAndComplete(data, investment_amount, investment_horizon_years) ==
    IF ~SupportsIn(data)
    THEN Raise("TypeError", <<"argument is not iterable">>)
    ELSE IF MissingFields(data) # <<>>
    THEN Raise("ValueError", <<"Claude response missing required fields">> \o MissingFields(data))
    ELSE IF data.t # "dict"
    THEN Raise("TypeError", <<"indices must be integers">>)
    ELSE IF data.v.recommendations.t # "list"
    THEN Raise("ValueError", <<"recommendations must be a list">>)
    ELSE IF Len(data.v.recommendations.v) = 0
    THEN Raise("ValueError", <<"recommendations list is empty">>)
    ELSE Bind(CalculateProjectedGrowth(investment_amount,
                    data.v.totalExpectedReturn, investment_horizon_years),
              LAMBDA growth : Complete(data, growth))

\* AnthropicService._extract_final_portfolio; response is the content of
\* the response.
ExtractFinalPortfolio(response, investment_amount, investment_horizon_years) ==
    LET Validate(parsed) ==
            IF Raised(parsed)
            THEN ParseFailure(parsed)
            ELSE Bind(parsed.val,
                      LAMBDA data : ValidateAndComplete(data, investment_amount,
                                        investment_horizon_years))
    IN  IF ~HasText(response)
        THEN Raise("ValueError", <<"Claude response contains no text content">>)
        ELSE Bind(JsonLoads(StripFences(TextBlocks(response)[1].text)), Validate)

\* ------------------------------------------------------------ evals/correctness_evals.py

\* The defaults of allocation_tolerance (0.5, held in tenths) and of
\* allocation_sum.
AllocationToleranceTenths == 5
AllocationTarget == 100

\* sum(rec.get('allocation', 0) for rec in recommendations)
RECURSIVE AllocationTotal(_)
AllocationTotal(recommendations) ==
    IF recommendations = <<>>
    THEN 0
    ELSE (IF "allocation" \in DOMAIN Head(recommendations).v
          THEN Head(recommendations).v.allocation.v
          ELSE 0)
         + AllocationTotal(Tail(recommendations))

\* passed of _eval_allocation_sum: abs(total - target) <= tolerance
AllocationSumPassed(recommendations) ==
    /\ recommendations # <<>>
    /\ \E total \in {AllocationTotal(recommendations)} :
        /\ 10 * (total - AllocationTarget) <= AllocationToleranceTenths
        /\ 10 * (AllocationTarget - total) <= AllocationToleranceTenths

\* ------------------------------------------------------------ anthropic_service.py: agent loop

\* The default of _agent_loop's max_iterations, which generate_portfolio uses.
max_iterations == 5

\* _build_user_prompt: the prompt text is built from the request parameters.
BuildUserPrompt(r) ==
    [prompt |-> <<r.risk_tolerance, r.investment_horizon_years, r.country,
                  r.investment_amount, r.currency>>]

UserMessage(content) == [role |-> "user", content |-> content]

AssistantMessage(content) == [role |-> "assistant", content |-> content]

LoopConditionOffByOne(i) == i <= max_iterations

\* while iteration < max_iterations
LoopCondition(i) == i < max_iterations

\* The branches on response.stop_reason.
IsEndTurn(stop_reason) == stop_reason = "end_turn"

IsNotEndTurn(stop_reason) == stop_reason # "end_turn"

\* elif response.stop_reason == "tool_use"
IsToolUseStop(stop_reason) == stop_reason = "tool_use"

\* Lines 170-182: the assistant response, then one user message with all
\* tool results.
ResultsBeforeResponse(msgs, content, tool_results) ==
    msgs \o <<UserMessage(tool_results), AssistantMessage(content)>>

AppendTurn(msgs, content, tool_results) ==
    msgs \o <<AssistantMessage(content), UserMessage(tool_results)>>

\* messages=messages of client.messages.create: the list as it is at the call
SentMessages(msgs) == msgs

LoopExhaustedError ==
    Raise("RuntimeError", <<"Portfolio generation did not complete within iterations">>)

\* The errors client.messages.create raises: the classes imported from the
\* anthropic package.
ApiErrorKinds == {"APIConnectionError", "RateLimitError", "APIError"}

GeneratePortfolioExceptAsRuntimeError(body) ==
    IF Raised(body) THEN Raise("RuntimeError", body.msg) ELSE body

\* The except clauses of generate_portfolio (APIConnectionError,
\* RateLimitError, APIError, Exception): each logs and re-raises the
\* exception it caught with a bare raise.
GeneratePortfolioExcept(body) ==
    IF Raised(body) THEN Raise(body.exc, body.msg) ELSE body

\* ------------------------------------------------------------ tools/cache.py

\* Python's True and False where a dict or None may stand as well.
PyBool(b) == [bool |-> b]

\* The keyword arguments of a cache operation: name/value pairs in the order
\* the caller gave them (a dict keeps insertion order).
Param(name, value) == [name |-> name, value |-> value]

\* The parameter names in the order sort_keys puts them (string order).
NameOrder == <<"country", "series">>

JsonDumpsUnsorted(kwargs) == kwargs

\* json.dumps(kwargs, sort_keys=True): the pairs in the order of their names.
JsonDumpsSortKeys(kwargs) ==
    LET present == SelectSeq(NameOrder, LAMBDA n : \E i \in DOMAIN kwargs : kwargs[i].name = n)
    IN  [j \in DOMAIN present |->
            kwargs[CHOOSE i \in DOMAIN kwargs : kwargs[i].name = present[j]]]

\* hashlib.sha256(...).hexdigest(): texts that differ get digests that differ.
Sha256(text) == [sha256 |-> text]

\* FirestoreCache._generate_cache_key
GenerateCacheKey(kwargs) == Sha256(JsonDumpsSortKeys(kwargs))

\* What the store raises when it cannot be reached.
StoreErrorKinds == {"ServiceUnavailable"}

CacheInitAlwaysEnabled(reachable) == TRUE

\* FirestoreCache.__init__: cache_enabled after construction, given whether
\* firestore.client() and db.collection() succeed.
CacheInit(reachable) == reachable

\* except Exception as e, in get, set and get_stale
CacheHandler(kind) == kind \in ExceptionKinds \cup StoreErrorKinds

\* doc_ref.get(): the document under the key, or the store's error.
StoreRead(st, key, store_ok) ==
    IF ~store_ok
    THEN Raise("ServiceUnavailable", <<"store unavailable">>)
    ELSE IF key \in DOMAIN st
         THEN Return([exists |-> TRUE, data |-> st[key]])
         ELSE Return([exists |-> FALSE, data |-> NoneVal])

\* data.get('cached_at') is None: the entry has no timestamp.
HasTimestamp(data) == "cached_at" \in DOMAIN data

ExpiredAtTtl(t, cached_at, ttl_hours) == t >= cached_at + ttl_hours

\* now > cached_at + timedelta(hours=ttl_hours)
Expired(t, cached_at, ttl_hours) == t > cached_at + ttl_hours

\* The try block of get, for the document read.
CacheGetTry(doc, t, ttl_hours) ==
    IF Raised(doc) THEN doc
    ELSE IF ~doc.val.exists THEN Return(NoneVal)
    ELSE IF ~HasTimestamp(doc.val.data) THEN Return(NoneVal)
    ELSE IF Expired(t, doc.val.data.cached_at, ttl_hours) THEN Return(NoneVal)
    ELSE Return(doc.val.data.value)

\* The except branch of get, set and get_stale, answering miss.
CacheExcept(body, miss) ==
    IF Raised(body) /\ CacheHandler(body.exc) THEN Return(miss) ELSE body

\* FirestoreCache.get, at time t on store st; store_calls are the calls made
\* to the store.
CacheGet(enabled, st, t, ttl_hours, kwargs, store_ok) ==
    IF ~enabled
    THEN Return(NoneVal) @@ [store_calls |-> <<>>]
    ELSE Bind(StoreRead(st, GenerateCacheKey(kwargs), store_ok),
              LAMBDA doc : CacheExcept(CacheGetTry(doc, t, ttl_hours), NoneVal))
         @@ [store_calls |-> <<"get">>]

\* age_hours > max_age_hours
TooOld(t, cached_at, max_age_hours) == t - cached_at > max_age_hours

AnnotateNothing(result, age_hours, cached_at) == result

\* result['_cache_metadata'] = {...}
Annotate(result, age_hours, cached_at) ==
    DictSet(result, "_cache_metadata",
            [is_stale |-> TRUE, age_hours |-> age_hours,
             cached_at |-> [isoformat |-> cached_at]])

\* The try block of get_stale, for the document read.
CacheGetStaleTry(doc, t, max_age_hours) ==
    IF Raised(doc) THEN doc
    ELSE IF ~doc.val.exists THEN Return(NoneVal)
    ELSE IF ~HasTimestamp(doc.val.data) THEN Return(NoneVal)
    ELSE IF TooOld(t, doc.val.data.cached_at, max_age_hours) THEN Return(NoneVal)
    ELSE Return(Annotate(doc.val.data.value, t - doc.val.data.cached_at,
                         doc.val.data.cached_at))

\* FirestoreCache.get_stale
CacheGetStale(enabled, st, t, max_age_hours, kwargs, store_ok) ==
    IF ~enabled
    THEN Return(NoneVal) @@ [store_calls |-> <<>>]
    ELSE Bind(StoreRead(st, GenerateCacheKey(kwargs), store_ok),
              LAMBDA doc : CacheExcept(CacheGetStaleTry(doc, t, max_age_hours), NoneVal))
         @@ [store_calls |-> <<"get">>]

\* cache_entry of set
CacheEntry(value, t, kwargs) == [value |-> value, cached_at |-> t, key_params |-> kwargs]

StoreWriteAlone(st, key, entry) == [k \in {key} |-> entry]

\* st with the entry written under the key: doc_ref.set(cache_entry)
StoreWrite(st, key, entry) ==
    [k \in DOMAIN st \cup {key} |-> IF k = key THEN entry ELSE st[k]]

\* FirestoreCache.set: the answer, with the store as the call leaves it.
CacheSet(enabled, st, t, value, kwargs, store_ok) ==
    IF ~enabled
    THEN Return(PyBool(FALSE)) @@ [store_calls |-> <<>>, store |-> st]
    ELSE IF ~store_ok
    THEN CacheExcept(Raise("ServiceUnavailable", <<"store unavailable">>), PyBool(FALSE))
         @@ [store_calls |-> <<"set">>, store |-> st]
    ELSE Return(PyBool(TRUE))
         @@ [store_calls |-> <<"set">>,
             store |-> StoreWrite(st, GenerateCacheKey(kwargs), CacheEntry(value, t, kwargs))]

\* ------------------------------------------------------------ tools/macro_data_tool.py

\* ttl_hours of the fresh lookup and max_age_hours of the stale lookup.
FreshTtlHours == 720
StaleMaxAgeHours == 1440

SupportedCountries == {"USA", "Canada", "EU", "India"}

SupportsAnyCountry(country) == TRUE

\* The if/elif chain on country: a branch fetches for it.
SupportsCountry(country) == country \in SupportedCountries

\* if cached: / if stale: a dict that is not empty
Truthy(v) == v # NoneVal /\ DOMAIN v # {}

\* cache.get(..., country=country) and the like: the one keyword given
CountryKwargs(country) == <<Param("country", country)>>

\* The _fetch_*_data call of the branch: _fetch_canada_data takes a
\* parameter years that the call does not pass, so that call raises
\* TypeError; the others do what the provider decides (live): they return
\* the data or raise.
MacroFetch(country, live) ==
    IF country = "Canada"
    THEN Raise("TypeError", <<"_fetch_canada_data() missing 1 required positional argument: 'years'">>)
    ELSE live

\* Lines 88-94
FreshResult(cached) == [success |-> TRUE, data |-> cached, from_cache |-> TRUE]

\* Lines 116-120
FetchedResult(data) == [success |-> TRUE, data |-> data, from_cache |-> FALSE]

StaleResultAsFailure(stale) ==
    ToolErrorCreate(CACHE_STALE, <<"Using cached data due to API unavailability">>,
                    WARNING, "Economic data may be slightly outdated", <<None>>)

\* Lines 129-139
StaleResult(stale) ==
    [success |-> TRUE,
     data |-> stale,
     from_cache |-> TRUE,
     warning |-> ToolErrorCreate(CACHE_STALE,
                    <<"Using cached data due to API unavailability">>,
                    WARNING, "Economic data may be slightly outdated", <<None>>)]

\* The except branch of execute (lines 122-147), for the error e of the
\* fetch: the stale lookup and the result.
MacroExcept(enabled, st, t, country, e, stale_ok) ==
    Bind(CacheGetStale(enabled, st, t, StaleMaxAgeHours, CountryKwargs(country), stale_ok),
         LAMBDA stale :
            [result |-> IF Truthy(stale.val)
                        THEN StaleResult(stale.val)
                        ELSE ToolErrorCreate(API_UNAVAILABLE,
                                <<"Failed to fetch macro data for", country>>, ERROR,
                                "Economic data temporarily unavailable", e.msg),
             trace |-> <<"get", "fetch", "get_stale">>,
             store |-> st])

\* The try block of execute (lines 97-120) after a fresh-cache miss.
MacroTry(enabled, st, t, country, live, oks) ==
    IF ~SupportsCountry(country)
    THEN [result |-> ToolErrorCreate(INVALID_PARAMETERS, <<"Unsupported country", country>>,
                        ERROR, "Economic data not available for the country", <<None>>),
          trace |-> <<"get">>,
          store |-> st]
    ELSE Bind(MacroFetch(country, live),
              LAMBDA data :
                IF Raised(data)
                THEN MacroExcept(enabled, st, t, country, data, oks.next)
                ELSE [result |-> FetchedResult(data.val),
                      trace |-> <<"get", "fetch", "set">>,
                      store |-> CacheSet(enabled, st, t, data.val,
                                         CountryKwargs(country), oks.next).store])

\* MacroEconomicDataTool.execute at time t on store st: the result, the
\* sources consulted in order (trace) and the store as the call leaves it.
\* oks tells whether the store answers the fresh lookup (get) and the cache
\* call after it (next).
MacroExecute(enabled, st, t, country, live, oks) ==
    Bind(CacheGet(enabled, st, t, FreshTtlHours, CountryKwargs(country), oks.get),
         LAMBDA cached :
            IF Truthy(cached.val)
            THEN [result |-> FreshResult(cached.val), trace |-> <<"get">>, store |-> st]
            ELSE MacroTry(enabled, st, t, country, live, oks))

\* ------------------------------------------------------------ tools/stock_universe_tool.py

\* The for loop over the documents of the query: stocks_by_sector and
\* total_stocks after it.
RECURSIVE Organize(_, _, _)
Organize(docs, stocks_by_sector, total_stocks) ==
    IF docs = <<>>
    THEN [stocks_by_sector |-> stocks_by_sector, total_stocks |-> total_stocks]
    ELSE Organize(Tail(docs),
                  DictSet(stocks_by_sector, Head(docs).sector, Head(docs).stocks),
                  total_stocks + Len(Head(docs).stocks))

\* StockUniverseTool.execute. has_collection: the constructor obtained the
\* collection; query: what the query's stream() does, the documents it
\* yields or the error it raises.
UniverseExecute(has_collection, country, query) ==
    IF ~has_collection
    THEN Return(ToolErrorCreate(API_UNAVAILABLE, <<"Firestore not available">>, ERROR,
                    "Stock data temporarily unavailable", <<None>>))
    ELSE IF Raised(query)
    THEN Return(ToolErrorCreate(UNKNOWN_ERROR, query.msg, ERROR,
                    "Failed to retrieve stock data", <<None>>))
    ELSE Bind(Organize(query.val, <<>>, 0),
              LAMBDA found :
                IF DOMAIN found.stocks_by_sector = {}
                THEN Return(ToolErrorCreate(INVALID_PARAMETERS,
                                <<"No stocks found with specified filters", country>>, ERROR,
                                "No stocks available for the country", <<None>>))
                ELSE Return([success |-> TRUE,
                             data |-> [country |-> country,
                                       sectors_returned |-> DOMAIN found.stocks_by_sector,
                                       total_stocks |-> found.total_stocks,
                                       stocks_by_sector |-> found.stocks_by_sector]]))

\* ------------------------------------------------------------ tools/stock_fundamentals_tool.py

\* if len(symbols) > 30
MaxSymbols == 30

\* symbol.upper(), on the spellings the model draws from
Upper(symbol) ==
    CASE symbol = "aapl" -> "AAPL"
      [] symbol = "msft" -> "MSFT"
      [] OTHER -> symbol

\* The for loop over symbols: fundamentals and missing_symbols after it, for
\* the documents the collection holds (stored, by document id).
RECURSIVE Lookup(_, _, _, _)
Lookup(symbols, stored, fundamentals, missing_symbols) ==
    IF symbols = <<>>
    THEN [fundamentals |-> fundamentals, missing_symbols |-> missing_symbols]
    ELSE IF Upper(Head(symbols)) \in DOMAIN stored
    THEN Lookup(Tail(symbols), stored,
                DictSet(fundamentals, Upper(Head(symbols)), stored[Upper(Head(symbols))]),
                missing_symbols)
    ELSE Lookup(Tail(symbols), stored, fundamentals,
                Append(missing_symbols, Upper(Head(symbols))))

\* Lines 111-126: the result for what the loop found.
FundamentalsResult(symbols, found) ==
    IF found.missing_symbols # <<>>
    THEN [success |-> TRUE,
          data |-> [symbols_requested |-> Len(symbols),
                    symbols_found |-> Cardinality(DOMAIN found.fundamentals),
                    fundamentals |-> found.fundamentals],
          warning |-> [message |-> <<"Some symbols not found", found.missing_symbols>>,
                       missing_count |-> Len(found.missing_symbols)]]
    ELSE [success |-> TRUE,
          data |-> [symbols_requested |-> Len(symbols),
                    symbols_found |-> Cardinality(DOMAIN found.fundamentals),
                    fundamentals |-> found.fundamentals]]

\* StockFundamentalsTool.execute. given: the argument, a list of symbols or
\* a value that has no len(); docs: what doc_ref.get() does, the stored
\* documents it reads from or the error it raises.
FundamentalsExecute(has_collection, given, docs) ==
    IF ~has_collection
    THEN Return(ToolErrorCreate(API_UNAVAILABLE, <<"Firestore not available">>, ERROR,
                    "Fundamental data temporarily unavailable", <<None>>))
    ELSE IF ~given.is_list
    THEN Raise("TypeError", <<"object of type 'int' has no len()">>)
    ELSE IF Len(given.items) > MaxSymbols
    THEN Return(ToolErrorCreate(INVALID_PARAMETERS, <<"Too many symbols requested">>, ERROR,
                    "Please limit to 30 stocks maximum per request", <<None>>))
    ELSE IF given.items # <<>> /\ Raised(docs)
    THEN Return(ToolErrorCreate(UNKNOWN_ERROR, docs.msg, ERROR,
                    "Failed to retrieve fundamental data", <<None>>))
    ELSE Bind(Lookup(given.items, IF Raised(docs) THEN <<>> ELSE docs.val, <<>>, <<>>),
              LAMBDA found :
                IF DOMAIN found.fundamentals = {}
                THEN Return(ToolErrorCreate(DATA_PARSE_ERROR,
                                <<"No fundamental data found for requested symbols">>, ERROR,
                                "Fundamental data not available for these stocks", <<None>>))
                ELSE Return(FundamentalsResult(given.items, found)))

\* ------------------------------------------------------------ agent/hardcoded_portfolio.py

\* A pydantic model object: its fields are read as attributes; it is no dict.
Dto(fields) == [t |-> "model", v |-> fields]

\* allocation in percent, expectedReturn in tenths of a percent
StockRecommendationDto(symbol, companyName, allocation, expectedReturn, sector, country) ==
    Dto([symbol |-> symbol, companyName |-> companyName, allocation |-> allocation,
         expectedReturn |-> expectedReturn, sector |-> sector, country |-> country])

usa_stocks ==
    [conservative |-> <<
        StockRecommendationDto("JNJ", "Johnson & Johnson", 30, 85, "Healthcare", "USA"),
        StockRecommendationDto("PG", "Procter & Gamble", 25, 78, "Consumer Staples", "USA"),
        StockRecommendationDto("KO", "Coca-Cola", 25, 72, "Consumer Staples", "USA"),
        StockRecommendationDto("VZ", "Verizon", 20, 65, "Utilities", "USA")>>,
     moderate |-> <<
        StockRecommendationDto("AAPL", "Apple Inc.", 28, 125, "Technology", "USA"),
        StockRecommendationDto("MSFT", "Microsoft Corporation", 27, 118, "Technology", "USA"),
        StockRecommendationDto("JPM", "JPMorgan Chase & Co.", 25, 92, "Financial Services", "USA"),
        StockRecommendationDto("JNJ", "Johnson & Johnson", 20, 85, "Healthcare", "USA")>>,
     aggressive |-> <<
        StockRecommendationDto("TSLA", "Tesla Inc.", 35, 213, "Automotive", "USA"),
        StockRecommendationDto("NVDA", "NVIDIA Corporation", 30, 245, "Technology", "USA"),
        StockRecommendationDto("GOOGL", "Alphabet Inc.", 20, 152, "Technology", "USA"),
        StockRecommendationDto("AMZN", "Amazon.com Inc.", 15, 168, "Consumer Discretionary", "USA")>>]

canada_stocks ==
    [conservative |-> <<
        StockRecommendationDto("RY.TO", "Royal Bank of Canada", 30, 80, "Financial Services", "Canada"),
        StockRecommendationDto("ENB.TO", "Enbridge Inc.", 28, 75, "Energy", "Canada"),
        StockRecommendationDto("FTS.TO", "Fortis Inc.", 22, 68, "Utilities", "Canada"),
        StockRecommendationDto("BCE.TO", "BCE Inc.", 20, 65, "Telecommunications", "Canada")>>,
     moderate |-> <<
        StockRecommendationDto("SHOP.TO", "Shopify Inc.", 30, 142, "Technology", "Canada"),
        StockRecommendationDto("RY.TO", "Royal Bank of Canada", 25, 80, "Financial Services", "Canada"),
        StockRecommendationDto("CNR.TO", "Canadian National Railway", 25, 95, "Industrials", "Canada"),
        StockRecommendationDto("ENB.TO", "Enbridge Inc.", 20, 75, "Energy", "Canada")>>,
     aggressive |-> <<
        StockRecommendationDto("SHOP.TO", "Shopify Inc.", 40, 185, "Technology", "Canada"),
        StockRecommendationDto("LSPD.TO", "Lightspeed Commerce", 30, 220, "Technology", "Canada"),
        StockRecommendationDto("SU.TO", "Suncor Energy", 18, 125, "Energy", "Canada"),
        StockRecommendationDto("AC.TO", "Air Canada", 12, 158, "Consumer Discretionary", "Canada")>>]

eu_stocks ==
    [conservative |-> <<
        StockRecommendationDto("NVS", "Novartis AG", 28, 78, "Healthcare", "EU"),
        StockRecommendationDto("NESN.SW", "Nestle SA", 27, 72, "Consumer Staples", "EU"),
        StockRecommendationDto("OR.PA", "L'Oreal SA", 25, 85, "Consumer Staples", "EU"),
        StockRecommendationDto("SAN.MC", "Banco Santander", 20, 65, "Financial Services", "EU")>>,
     moderate |-> <<
        StockRecommendationDto("ASML", "ASML Holding", 30, 135, "Technology", "EU"),
        StockRecommendationDto("SAP", "SAP SE", 25, 112, "Technology", "EU"),
        StockRecommendationDto("SIE.DE", "Siemens AG", 25, 105, "Industrials", "EU"),
        StockRecommendationDto("NVS", "Novartis AG", 20, 78, "Healthcare", "EU")>>,
     aggressive |-> <<
        StockRecommendationDto("ASML", "ASML Holding", 35, 185, "Technology", "EU"),
        StockRecommendationDto("MC.PA", "LVMH", 30, 168, "Consumer Discretionary", "EU"),
        StockRecommendationDto("ADS.DE", "Adidas AG", 20, 142, "Consumer Discretionary", "EU"),
        StockRecommendationDto("AIR.PA", "Airbus SE", 15, 135, "Industrials", "EU")>>]

india_stocks ==
    [conservative |-> <<
        StockRecommendationDto("RELIANCE.NS", "Reliance Industries", 28, 95, "Energy", "India"),
        StockRecommendationDto("HDFCBANK.NS", "HDFC Bank", 27, 102, "Financial Services", "India"),
        StockRecommendationDto("ITC.NS", "ITC Limited", 25, 85, "Consumer Staples", "India"),
        StockRecommendationDto("INFY.NS", "Infosys Limited", 20, 110, "Technology", "India")>>,
     moderate |-> <<
        StockRecommendationDto("TCS.NS", "Tata Consultancy Services", 28, 135, "Technology", "India"),
        StockRecommendationDto("RELIANCE.NS", "Reliance Industries", 27, 128, "Energy", "India"),
        StockRecommendationDto("HDFCBANK.NS", "HDFC Bank", 25, 115, "Financial Services", "India"),
        StockRecommendationDto("BHARTIARTL.NS", "Bharti Airtel", 20, 108, "Telecommunications", "India")>>,
     aggressive |-> <<
        StockRecommendationDto("ADANIENT.NS", "Adani Enterprises", 32, 225, "Conglomerate", "India"),
        StockRecommendationDto("TCS.NS", "Tata Consultancy Services", 28, 168, "Technology", "India"),
        StockRecommendationDto("TATAMOTORS.NS", "Tata Motors", 24, 195, "Automotive", "India"),
        StockRecommendationDto("ZOMATO.NS", "Zomato Limited", 16, 240, "Consumer Discretionary", "India")>>]

\* dict.get(key, default)
DictGet(d, key, default) == IF key \in DOMAIN d THEN d[key] ELSE default

country_stock_map ==
    [USA |-> usa_stocks, Canada |-> canada_stocks, EU |-> eu_stocks, India |-> india_stocks]

risk_category_map == [Low |-> "conservative", Medium |-> "moderate", High |-> "aggressive"]

\* _get_stocks_for_profile
GetStocksForProfile(country, risk) ==
    LET stock_pool == DictGet(country_stock_map, country, usa_stocks)
        category == DictGet(risk_category_map, risk, "moderate")
    IN  DictGet(stock_pool, category, stock_pool.moderate)

\* _calculate_expected_return, in tenths of a percent
CalculateExpectedReturn(risk) == DictGet([Low |-> 75, Medium |-> 108, High |-> 182], risk, 100)

\* _calculate_risk_score
CalculateRiskScore(risk) == DictGet([Low |-> 22, Medium |-> 48, High |-> 75], risk, 50)

\* 1 + annual_return / 100 as a fraction in lowest terms, for a return in
\* tenths of a percent.
ReturnNum(annual_return) == (1000 + annual_return) \div Gcd(1000 + annual_return, 1000)

ReturnDen(annual_return) == 1000 \div Gcd(1000 + annual_return, 1000)

\* An exact value: whole thousandths and a rest of rest/over of a thousandth.
Whole(amount) == [whole |-> amount, rest |-> 0, over |-> 1]

\* value * num / den, exactly
Times(value, num, den) ==
    LET product == value.whole * num
        rest == (product % den) * value.over + value.rest * num
        over == value.over * den
    IN  [whole |-> product \div den + rest \div over, rest |-> rest % over, over |-> over]

\* initial_amount * ((1 + annual_return / 100) ** year)
RECURSIVE Compounded(_, _, _)
Compounded(initial_amount, annual_return, year) ==
    IF year = 0
    THEN Whole(initial_amount)
    ELSE Times(Compounded(initial_amount, annual_return, year - 1),
               ReturnNum(annual_return), ReturnDen(annual_return))

\* The value lies halfway between two hundredths.
Halfway(value) == value.whole % 10 = 5 /\ value.rest = 0

\* round(value, 2), in hundredths, for a value that is not halfway
Round2(value) == value.whole \div 10 + (IF value.whole % 10 >= 5 THEN 1 ELSE 0)

ProjectedGrowthDto(year, projectedValue) == Dto([year |-> year, projectedValue |-> projectedValue])

HardcodedProjectedGrowthFromYearOne(initial_amount, annual_return, years) ==
    [y \in 1..years |->
        ProjectedGrowthDto(y, Round2(Compounded(initial_amount, annual_return, y)))]

\* _calculate_projected_growth of hardcoded_portfolio.py
HardcodedProjectedGrowth(initial_amount, annual_return, years) ==
    <<ProjectedGrowthDto(0, Round2(Whole(initial_amount)))>>
    \o [y \in 1..years |->
            ProjectedGrowthDto(y, Round2(Compounded(initial_amount, annual_return, y)))]

\* generate_hardcoded_portfolio(request_data)
GenerateHardcodedPortfolio(request_data) ==
    LET stocks == GetStocksForProfile(request_data.country, request_data.riskTolerance)
        total_return == CalculateExpectedReturn(request_data.riskTolerance)
        risk_score == CalculateRiskScore(request_data.riskTolerance)
        projected_growth == HardcodedProjectedGrowth(request_data.investmentAmount,
                                total_return, request_data.investmentHorizonYears)
    IN  Dto([recommendations |-> stocks,
             totalExpectedReturn |-> total_return,
             riskScore |-> risk_score,
             projectedGrowth |-> projected_growth,
             generatedAt |-> Timestamp,
             error |-> NoneVal])

\* ------------------------------------------------------------ main.py

\* create_response(data, status)
CreateResponse(data, status) == [status |-> status, data |-> data]

\* str(e) and the other texts of a response, as JSON strings
JText(text) == [t |-> "str", v |-> text]

ErrorBody(text) == JDict([error |-> JText(text)])

\* not value, for a JSON value
Falsy(value) ==
    \/ value.t = "null"
    \/ value.t = "num" /\ value.v = 0
    \/ value.t \in {"str", "list"} /\ value.v = <<>>
    \/ value.t = "dict" /\ DOMAIN value.v = {}

\* request_json.get(key), and .get(key, default)
JsonGet(request_json, key, default) ==
    IF key \in DOMAIN request_json.v THEN request_json.v[key] ELSE default

\* get_anthropic_service(): the instance, created on first use. The outcome
\* carries what _anthropic_service is afterwards; the assignment does not
\* happen when the constructor raises.
GetAnthropicService(current) ==
    IF current # None
    THEN Return(current) @@ [service |-> current]
    ELSE IF Raised(ToolRegistryInit)
         THEN ToolRegistryInit @@ [service |-> None]
         ELSE Return("AnthropicService") @@ [service |-> "AnthropicService"]

\* The try block of lines 111-125: the service, then its generate_portfolio,
\* whose outcome for the request is generated.
GenerateTry(current, generated) ==
    IF Raised(GetAnthropicService(current))
    THEN GetAnthropicService(current)
    ELSE generated @@ [service |-> GetAnthropicService(current).service]

\* generate_hardcoded_portfolio(request_data) has this one parameter.
HardcodedParameters == {"request_data"}

\* The keywords of the call of lines 133-138.
FallbackKeywords ==
    {"risk_tolerance", "investment_horizon_years", "country", "investment_amount"}

\* portfolio[key] = value
SetItem(portfolio, key, value) ==
    IF portfolio.t = "dict"
    THEN Return(JDict(DictSet(portfolio.v, key, value)))
    ELSE Raise("TypeError", <<"object does not support item assignment">>)

\* The inner try block, lines 132-140: the call of generate_hardcoded_portfolio
\* with the four keywords, then portfolio['error'] = ... on what it returned.
FallbackTry(risk_tolerance, investment_horizon, country, investment_amount) ==
    IF ~CallBinds(HardcodedParameters, HardcodedParameters, FallbackKeywords)
    THEN Raise("TypeError", <<"got an unexpected keyword argument">>)
    ELSE SetItem(GenerateHardcodedPortfolio(
                    [riskTolerance |-> risk_tolerance, country |-> country,
                     investmentAmount |-> investment_amount,
                     investmentHorizonYears |-> investment_horizon]),
                 "error", JText(<<"AI generation unavailable, using fallback portfolio">>))

\* except Exception as e, lines 127-148, for the exception e of the try block
GenerateExcept(e, risk_tolerance, investment_horizon, country, investment_amount) ==
    LET fallback == FallbackTry(risk_tolerance, investment_horizon, country,
                                investment_amount)
    IN  IF Raised(fallback)
        THEN CreateResponse(JDict([error |-> JText(<<"Portfolio generation failed">>),
                                   details |-> JText(e.msg)]), 500)
        ELSE CreateResponse(fallback.val, 200)

\* generatePortfolio(request): the response, and _anthropic_service after it.
\* authorized is what verify_security_key returns; body is what
\* request.get_json(silent=True) returns, None for a body that is no JSON.
GeneratePortfolioHandler(current, authorized, method, body, generated) ==
    LET Answer(response, service) == [response |-> response, service |-> service]
        risk_tolerance == JsonGet(body, "riskTolerance", JNull)
        investment_horizon == JsonGet(body, "investmentHorizonYears", JNull)
        country == JsonGet(body, "country", JNull)
        investment_amount == JsonGet(body, "investmentAmount", JNull)
        tried == GenerateTry(current, generated)
    IN  IF ~authorized
        THEN Answer(CreateResponse(ErrorBody(<<"Unauthorized">>), 403), current)
        ELSE IF method # "POST"
        THEN Answer(CreateResponse(ErrorBody(<<"Method not allowed">>), 405), current)
        ELSE IF Falsy(body)
        THEN Answer(CreateResponse(ErrorBody(<<"Invalid JSON">>), 400), current)
        ELSE IF body.t # "dict"
        THEN Answer(CreateResponse(ErrorBody(<<"Invalid request", "has no attribute 'get'">>),
                                   400), current)
        ELSE IF \/ Falsy(risk_tolerance) \/ Falsy(investment_horizon)
                \/ Falsy(country) \/ Falsy(investment_amount)
        THEN Answer(CreateResponse(ErrorBody(<<"Missing required fields">>), 400), current)
        ELSE IF Raised(tried)
        THEN Answer(GenerateExcept(tried, risk_tolerance, investment_horizon, country,
                                   investment_amount), tried.service)
        ELSE Answer(CreateResponse(tried.val, 200), tried.service)

\* ------------------------------------------------------------ specification: tool layer

ToolNames == DOMAIN RegisterTools \cup {MarketSentimentTool, "no_such_tool"}

ToolCalls == [name : ToolNames, kwargs : KwargsSet, out : ExecOutcomes]

NoCall == [name |-> "", kwargs |-> GoodKwargs, out |-> Return(SuccessDict)]

NoAnswer == [safe |-> Return(NoneVal), reg |-> Return(NoneVal) @@ [executed |-> FALSE]]

NoRequests == [exc |-> "none", msg |-> <<>>, val |-> <<>>, log |-> <<>>]

\* The request parameters the extraction uses.
Requests ==
    {[risk_tolerance |-> "Medium", investment_horizon_years |-> 2, country |-> "USA",
      investment_amount |-> Amount(1000, 0), currency |-> "USD"],
     [risk_tolerance |-> "High", investment_horizon_years |-> 1, country |-> "India",
      investment_amount |-> Amount(250, 500), currency |-> "INR"]}

NoResponse == [content |-> <<>>, request |-> CHOOSE r \in Requests : TRUE]

NoCacheOp ==
    [op |-> "none", arg |-> 0, kwargs |-> <<>>, value |-> NoneVal, store_ok |-> TRUE,
     at |-> 0, answer |-> Return(NoneVal) @@ [store_calls |-> <<>>]]

NoExecute ==
    [country |-> "", fetch |-> Return(NoneVal),
     oks |-> [get |-> TRUE, next |-> TRUE], at |-> 0,
     result |-> NoneVal, trace |-> <<>>]

EmptyStore == <<>>

NoCache ==
    /\ cache_enabled = FALSE
    /\ store = EmptyStore
    /\ now = 0
    /\ reachable_at_init = FALSE
    /\ c_last = NoCacheOp
    /\ m_last = NoExecute

NoGrowthCall == [initial_amount |-> 0, annual_return_pct |-> JNull, years |-> 0]

NoFallbackCall == [riskTolerance |-> "", country |-> "", investmentAmount |-> 0,
                   investmentHorizonYears |-> 0]

NoFallback ==
    /\ f_in = NoFallbackCall
    /\ f_out = NoneVal

NoHttpCall == [authorized |-> FALSE, method |-> "", body |-> JNull,
               generated |-> Return(JNull)]

NoHttpResponse == CreateResponse(JNull, 0)

NoHttp ==
    /\ h_in = NoHttpCall
    /\ h_out = NoHttpResponse
    /\ anthropic_service = None

NoConcurrent ==
    /\ frames = <<>>
    /\ heap = <<>>

NoUnit ==
    /\ g_in = NoGrowthCall
    /\ g_out = Return(NoneVal)
    /\ NoFallback
    /\ NoHttp
    /\ NoConcurrent

NoRegistry ==
    /\ registry_tools = EmptyRegistry
    /\ registered = <<>>

NoLoop ==
    /\ request = CHOOSE r \in Requests : TRUE
    /\ iteration = 0
    /\ messages = <<>>
    /\ calls = <<>>
    /\ executions = <<>>
    /\ outcome = Return(NoneVal)
    /\ api_error = "none"

InitTool ==
    /\ pc = "drawn"
    /\ t_in \in ToolCalls
    /\ t_out = NoAnswer
    /\ e_in = <<>>
    /\ e_out = NoRequests
    /\ x_in = NoResponse
    /\ x_out = Return(NoneVal)
    /\ NoLoop
    /\ NoRegistry
    /\ NoUnit
    /\ NoCache

\* One call of tool.safe_execute(**kwargs) and one of
\* registry.execute_tool(name, **kwargs) on the drawn input.
CallTool ==
    /\ pc = "drawn"
    /\ pc' = "applied"
    /\ t_out' = [safe |-> SafeExecute(t_in.kwargs, t_in.out),
                 reg |-> ExecuteTool(RegisterTools, t_in.name, t_in.kwargs, t_in.out)]
    /\ UNCHANGED <<t_in, execVars, extractVars, loopVars, cacheVars, macroVars, registryVars, unitVars>>

NextTool == CallTool

SpecTool == InitTool /\ [][NextTool]_vars

\* ------------------------------------------------------------ specification: tool requests

MaxBlocks == 3

ToolUseIds == {"a", "b", "c"}

\* One content block together with what the requested tool does.
RequestCases ==
    {[block |-> ToolUseBlock(id, MacroTool, GoodKwargs), out |-> o] :
        id \in ToolUseIds,
        o \in {Return(SuccessDict), Return(UnserializableDict),
               Return(ToolErrorCreate(API_UNAVAILABLE, <<"tool failed">>, ERROR, None, <<None>>)),
               Raise("RuntimeError", <<"boom">>)}}
    \cup {[block |-> ToolUseBlock(id, "no_such_tool", GoodKwargs), out |-> Return(SuccessDict)] :
            id \in ToolUseIds}
    \cup {[block |-> TextBlock(<<"thinking">>), out |-> Return(SuccessDict)]}

SeqsUpTo(S, n) == UNION {[1..k -> S] : k \in 0..n}

Blocks(cases) == [i \in DOMAIN cases |-> cases[i].block]

Outs(cases) == [i \in DOMAIN cases |-> cases[i].out]

InitExec ==
    /\ pc = "drawn"
    /\ e_in \in SeqsUpTo(RequestCases, MaxBlocks)
    /\ e_out = NoRequests
    /\ t_in = NoCall
    /\ t_out = NoAnswer
    /\ x_in = NoResponse
    /\ x_out = Return(NoneVal)
    /\ NoLoop
    /\ NoRegistry
    /\ NoUnit
    /\ NoCache

\* One call of _execute_tool_requests(content_blocks) on the drawn content.
CallExecuteToolRequests ==
    /\ pc = "drawn"
    /\ pc' = "applied"
    /\ e_out' = ExecuteToolRequests(RegisterTools, Blocks(e_in), Outs(e_in))
    /\ UNCHANGED <<e_in, toolVars, extractVars, loopVars, cacheVars, macroVars, registryVars, unitVars>>

NextExec == CallExecuteToolRequests

SpecExec == InitExec /\ [][NextExec]_vars

\* ------------------------------------------------------------ specification: extraction

MaxWrap == 3

\* What may stand before and after the payload in a text.
Wraps == SeqsUpTo({Ws, Fence, JsonTag}, MaxWrap)

Texts == Wraps \cup {p \o <<d>> \o q : p \in Wraps, d \in PayloadTokens, q \in Wraps}

SomeToolUse == ToolUseBlock("a", MacroTool, GoodKwargs)

FinalContents ==
    {<<TextBlock(t)>> : t \in Texts}
    \cup {<<>>,
          <<SomeToolUse>>,
          <<SomeToolUse, TextBlock(<<"P_ok">>)>>,
          <<TextBlock(<<>>), TextBlock(<<"P_ok">>)>>,
          <<TextBlock(<<GarbagePayload>>), TextBlock(<<"P_ok">>)>>,
          <<TextBlock(<<"P_empty">>), TextBlock(<<"P_ok">>)>>}

InitExtract ==
    /\ pc = "drawn"
    /\ x_in \in [content : FinalContents, request : Requests]
    /\ x_out = Return(NoneVal)
    /\ t_in = NoCall
    /\ t_out = NoAnswer
    /\ e_in = <<>>
    /\ e_out = NoRequests
    /\ NoLoop
    /\ NoRegistry
    /\ NoUnit
    /\ NoCache

\* One call of _extract_final_portfolio on the drawn response.
CallExtract ==
    /\ pc = "drawn"
    /\ pc' = "applied"
    /\ x_out' = ExtractFinalPortfolio(x_in.content, x_in.request.investment_amount,
                    x_in.request.investment_horizon_years)
    /\ UNCHANGED <<x_in, toolVars, execVars, loopVars, cacheVars, macroVars, registryVars, unitVars>>

NextExtract == CallExtract

SpecExtract == InitExtract /\ [][NextExtract]_vars

\* ------------------------------------------------------------ specification: projected growth

MaxYears == 3

\* Amounts of 100 and more, with two decimals at most and with more.
GrowthAmounts ==
    {Amount(100, 0), Amount(100, 4), Amount(100, 250), Amount(100, 996), Amount(123, 456)}

GrowthReturns == {-50, 0, 10, 25, 100}

\* No value of the table lies halfway between two hundredths.
NoTie(initial_amount, annual_return_pct, years) ==
    \A y \in 0..years :
        (initial_amount * GrowthNum(annual_return_pct) ^ y)
            % (10 * GrowthDen(annual_return_pct) ^ y)
        # 5 * GrowthDen(annual_return_pct) ^ y

GrowthCalls ==
    {c \in [initial_amount : GrowthAmounts,
            annual_return_pct : {JNum(r) : r \in GrowthReturns},
            years : 0..MaxYears] :
        NoTie(c.initial_amount, c.annual_return_pct.v, c.years)}

InitGrowth ==
    /\ pc = "drawn"
    /\ g_in \in GrowthCalls
    /\ g_out = Return(NoneVal)
    /\ NoFallback
    /\ NoHttp
    /\ NoConcurrent
    /\ t_in = NoCall
    /\ t_out = NoAnswer
    /\ e_in = <<>>
    /\ e_out = NoRequests
    /\ x_in = NoResponse
    /\ x_out = Return(NoneVal)
    /\ NoLoop
    /\ NoRegistry
    /\ NoCache

\* One call of _calculate_projected_growth on the drawn arguments.
CallGrowth ==
    /\ pc = "drawn"
    /\ pc' = "applied"
    /\ g_out' = CalculateProjectedGrowth(g_in.initial_amount, g_in.annual_return_pct,
                                         g_in.years)
    /\ UNCHANGED <<g_in, fallbackVars, httpVars, concurrentVars>>
    /\ UNCHANGED <<toolVars, execVars, extractVars, loopVars, cacheVars, macroVars,
                   registryVars>>

NextGrowth == CallGrowth

SpecGrowth == InitGrowth /\ [][NextGrowth]_vars

\* ------------------------------------------------------------ specification: cache

MaxTime == 3

TtlChoices == {1, 2}

MaxAgeChoices == {2, 3}

CachePayloads == {[indicators |-> "v1"], [indicators |-> "v2"]}

UsaGdp == <<Param("country", "USA"), Param("series", "gdp")>>
GdpUsa == <<Param("series", "gdp"), Param("country", "USA")>>
Canada == <<Param("country", "Canada")>>

CacheKwargs == {UsaGdp, GdpUsa, Canada}

\* A document of the collection that carries no cached_at.
UntimedEntry == [value |-> [indicators |-> "v1"], key_params |-> Canada]

InitialStores ==
    {EmptyStore, StoreWrite(EmptyStore, GenerateCacheKey(Canada), UntimedEntry)}

InitCache ==
    /\ pc = "new"
    /\ cache_enabled = FALSE
    /\ store \in InitialStores
    /\ now = 0
    /\ reachable_at_init \in BOOLEAN
    /\ c_last = NoCacheOp
    /\ m_last = NoExecute
    /\ t_in = NoCall
    /\ t_out = NoAnswer
    /\ e_in = <<>>
    /\ e_out = NoRequests
    /\ x_in = NoResponse
    /\ x_out = Return(NoneVal)
    /\ NoLoop
    /\ NoRegistry
    /\ NoUnit

\* FirestoreCache(collection_name)
CacheConstruct ==
    /\ pc = "new"
    /\ pc' = "ready"
    /\ cache_enabled' = CacheInit(reachable_at_init)
    /\ UNCHANGED <<store, now, reachable_at_init, c_last>>
    /\ UNCHANGED <<toolVars, execVars, extractVars, loopVars, macroVars, registryVars, unitVars>>

CacheOp(op, arg, kwargs, value, store_ok, answer) ==
    [op |-> op, arg |-> arg, kwargs |-> kwargs, value |-> value, store_ok |-> store_ok,
     at |-> now, answer |-> answer]

\* cache.get(ttl_hours, **kwargs)
Get(ttl_hours, kwargs, store_ok) ==
    /\ pc = "ready"
    /\ c_last' = CacheOp("get", ttl_hours, kwargs, NoneVal, store_ok,
                    CacheGet(cache_enabled, store, now, ttl_hours, kwargs, store_ok))
    /\ UNCHANGED <<pc, cache_enabled, store, now, reachable_at_init>>
    /\ UNCHANGED <<toolVars, execVars, extractVars, loopVars, macroVars, registryVars, unitVars>>

\* cache.get_stale(max_age_hours, **kwargs)
GetStale(max_age_hours, kwargs, store_ok) ==
    /\ pc = "ready"
    /\ c_last' = CacheOp("get_stale", max_age_hours, kwargs, NoneVal, store_ok,
                    CacheGetStale(cache_enabled, store, now, max_age_hours, kwargs, store_ok))
    /\ UNCHANGED <<pc, cache_enabled, store, now, reachable_at_init>>
    /\ UNCHANGED <<toolVars, execVars, extractVars, loopVars, macroVars, registryVars, unitVars>>

\* cache.set(value, **kwargs)
Set(value, kwargs, store_ok) ==
    /\ pc = "ready"
    /\ \E done \in {CacheSet(cache_enabled, store, now, value, kwargs, store_ok)} :
        /\ store' = done.store
        /\ c_last' = CacheOp("set", 0, kwargs, value, store_ok,
                        [exc |-> done.exc, msg |-> done.msg, val |-> done.val,
                         store_calls |-> done.store_calls])
    /\ UNCHANGED <<pc, cache_enabled, now, reachable_at_init>>
    /\ UNCHANGED <<toolVars, execVars, extractVars, loopVars, macroVars, registryVars, unitVars>>

\* An hour passes.
Tick ==
    /\ pc = "ready"
    /\ now < MaxTime
    /\ now' = now + 1
    /\ UNCHANGED <<pc, cache_enabled, store, reachable_at_init, c_last>>
    /\ UNCHANGED <<toolVars, execVars, extractVars, loopVars, macroVars, registryVars, unitVars>>

NextCache ==
    \/ CacheConstruct
    \/ \E ttl_hours \in TtlChoices, kwargs \in CacheKwargs, store_ok \in BOOLEAN :
            Get(ttl_hours, kwargs, store_ok)
    \/ \E max_age_hours \in MaxAgeChoices, kwargs \in CacheKwargs, store_ok \in BOOLEAN :
            GetStale(max_age_hours, kwargs, store_ok)
    \/ \E value \in CachePayloads, kwargs \in CacheKwargs, store_ok \in BOOLEAN :
            Set(value, kwargs, store_ok)
    \/ Tick

SpecCache == InitCache /\ [][NextCache]_vars

\* ------------------------------------------------------------ specification: macro tool

\* The hours at which the tool is called: the boundaries of the two ages.
Instants == {0, FreshTtlHours, FreshTtlHours + 1, StaleMaxAgeHours, StaleMaxAgeHours + 1}

MacroCountries == {"USA", "India", "Canada", "Atlantis"}

\* What a live fetch does: the provider's data, or an error.
MacroData == {[indicators |-> "v1"], [indicators |-> "v2"]}

LiveOutcomes ==
    {Return(d) : d \in MacroData}
    \cup {Raise("ValueError", <<"No indicators successfully retrieved">>)}

\* An execute makes at most two cache calls, the fresh lookup and then either
\* the write or the stale lookup: whether the store answers each of them.
StoreAnswers == [get : BOOLEAN, next : BOOLEAN]

InitMacro ==
    /\ pc = "new"
    /\ cache_enabled = FALSE
    /\ store = EmptyStore
    /\ now = 0
    /\ reachable_at_init \in BOOLEAN
    /\ c_last = NoCacheOp
    /\ m_last = NoExecute
    /\ t_in = NoCall
    /\ t_out = NoAnswer
    /\ e_in = <<>>
    /\ e_out = NoRequests
    /\ x_in = NoResponse
    /\ x_out = Return(NoneVal)
    /\ NoLoop
    /\ NoRegistry
    /\ NoUnit

\* MacroEconomicDataTool.__init__ constructs the tool's FirestoreCache.
MacroConstruct ==
    /\ pc = "new"
    /\ pc' = "ready"
    /\ cache_enabled' = CacheInit(reachable_at_init)
    /\ UNCHANGED <<store, now, reachable_at_init, c_last, m_last>>
    /\ UNCHANGED <<toolVars, execVars, extractVars, loopVars, registryVars, unitVars>>

\* tool.execute(country)
MacroExecuteCall(country, live, oks) ==
    /\ pc = "ready"
    /\ \E done \in {MacroExecute(cache_enabled, store, now, country, live, oks)} :
        /\ store' = done.store
        /\ m_last' = [country |-> country, fetch |-> MacroFetch(country, live),
                      oks |-> oks, at |-> now,
                      result |-> done.result, trace |-> done.trace]
    /\ UNCHANGED <<pc, cache_enabled, now, reachable_at_init, c_last>>
    /\ UNCHANGED <<toolVars, execVars, extractVars, loopVars, registryVars, unitVars>>

\* Time passes until a later instant.
Advance ==
    /\ pc = "ready"
    /\ \E t \in Instants : t > now /\ now' = t
    /\ UNCHANGED <<pc, cache_enabled, store, reachable_at_init, c_last, m_last>>
    /\ UNCHANGED <<toolVars, execVars, extractVars, loopVars, registryVars, unitVars>>

NextMacro ==
    \/ MacroConstruct
    \/ \E country \in MacroCountries, live \in LiveOutcomes, oks \in StoreAnswers :
            MacroExecuteCall(country, live, oks)
    \/ Advance

SpecMacro == InitMacro /\ [][NextMacro]_vars

\* ------------------------------------------------------------ specification: registry

MaxRegistrations == 4

\* Tool objects to register: two objects for each name.
ToolObjects ==
    {Tool(name, instance) :
        name \in {MacroTool, StockUniverseTool, StockFundamentalsTool},
        instance \in {1, 2}}

\* The registry after self._tools = {}.
InitRegistry ==
    /\ pc = "ready"
    /\ registry_tools = EmptyRegistry
    /\ registered = <<>>
    /\ t_in = NoCall
    /\ t_out = NoAnswer
    /\ e_in = <<>>
    /\ e_out = NoRequests
    /\ x_in = NoResponse
    /\ x_out = Return(NoneVal)
    /\ NoLoop
    /\ NoCache
    /\ NoUnit

\* registry.register(tool)
RegisterCall(tool) ==
    /\ pc = "ready"
    /\ Len(registered) < MaxRegistrations
    /\ registry_tools' = Register(registry_tools, tool)
    /\ registered' = Append(registered, tool)
    /\ UNCHANGED <<pc, toolVars, execVars, extractVars, loopVars, cacheVars, macroVars, unitVars>>

\* self._register_tools(alpha_vantage_key, fred_key), the second statement of
\* ToolRegistry.__init__, on the empty registry: the tools are registered, or
\* the exception leaves __init__ and no registry comes to exist.
RegisterToolsCall ==
    /\ pc = "ready"
    /\ registered = <<>>
    /\ IF Raised(ToolRegistryInit)
       THEN /\ pc' = "raised"
            /\ UNCHANGED registryVars
       ELSE /\ pc' = "constructed"
            /\ registry_tools' = ToolRegistryInit.val
            /\ registered' = <<Tool(MacroTool, 1), Tool(StockUniverseTool, 1),
                                Tool(StockFundamentalsTool, 1)>>
    /\ UNCHANGED <<toolVars, execVars, extractVars, loopVars, cacheVars, macroVars, unitVars>>

NextRegistry ==
    \/ \E tool \in ToolObjects : RegisterCall(tool)
    \/ RegisterToolsCall

SpecRegistry == InitRegistry /\ [][NextRegistry]_vars

\* ------------------------------------------------------------ specification: dispatch to the tools

\* What the stock_universe query yields.
UniverseQueries ==
    {Return(<<>>),
     Return(<<[sector |-> "Technology", stocks |-> <<"AAPL", "MSFT">>]>>),
     Return(<<[sector |-> "Technology", stocks |-> <<"AAPL">>],
              [sector |-> "Energy", stocks |-> <<"XOM">>]>>),
     Raise("ServiceUnavailable", <<"store unavailable">>)}

\* The symbols argument of get_stock_fundamentals.
SymbolLists ==
    {[is_list |-> TRUE, items |-> items] :
        items \in {<<>>, <<"AAPL">>, <<"aapl", "AAPL">>, <<"AAPL", "ZZZ">>,
                   <<"ZZZ", "ZZZ">>, [i \in 1..(MaxSymbols + 1) |-> "AAPL"]}}
    \cup {[is_list |-> FALSE, items |-> <<>>]}

\* What the stock_fundamentals collection does on a read.
FundamentalsDocs ==
    {Return([id \in {"AAPL", "MSFT"} |-> [pe_ratio |-> id]]),
     Raise("ServiceUnavailable", <<"store unavailable">>)}

\* The surroundings of one call, as far as each tool reads them.
Surroundings ==
    [country : {"USA"}, live : {Return([indicators |-> "v1"])},
     oks : {[get |-> TRUE, next |-> TRUE]}, has_collection : {TRUE},
     query : {Return(<<>>)}, given : {[is_list |-> TRUE, items |-> <<>>]},
     docs : {Raise("ServiceUnavailable", <<"store unavailable">>)}]

Usual == CHOOSE env \in Surroundings : TRUE

\* The calls drawn: for each tool the inputs and outcomes it depends on.
DispatchCalls ==
    {[name |-> MacroTool, env |-> [Usual EXCEPT !.country = c, !.live = l, !.oks = o]] :
        c \in MacroCountries, l \in LiveOutcomes, o \in StoreAnswers}
    \cup {[name |-> StockUniverseTool,
           env |-> [Usual EXCEPT !.has_collection = h, !.query = q]] :
            h \in BOOLEAN, q \in UniverseQueries}
    \cup {[name |-> StockFundamentalsTool,
           env |-> [Usual EXCEPT !.has_collection = h, !.given = g, !.docs = d]] :
            h \in BOOLEAN, g \in SymbolLists, d \in FundamentalsDocs}
    \cup {[name |-> n, env |-> Usual] : n \in {MarketSentimentTool, "no_such_tool"}}

\* tool.execute(**kwargs) of the tool registered under the name, for
\* arguments that fit its signature. macro: what the macro tool's execute
\* does in these surroundings.
ToolOutcome(name, env, macro) ==
    CASE name = MacroTool -> Return(macro.result)
      [] name = StockUniverseTool ->
            UniverseExecute(env.has_collection, env.country, env.query)
      [] name = StockFundamentalsTool ->
            FundamentalsExecute(env.has_collection, env.given, env.docs)
      [] OTHER -> Return(NoneVal)

\* The tool's execute runs: the name is registered and the arguments fit.
Runs(name, kwargs) == name \in DOMAIN RegisterTools /\ kwargs = GoodKwargs

InitDispatch == InitMacro

\* registry.execute_tool(name, **kwargs) on the registry as _register_tools
\* builds it, and tool.safe_execute(**kwargs) beside it.
DispatchCall(call, kwargs) ==
    /\ pc = "ready"
    /\ \E macro \in {MacroExecute(cache_enabled, store, now, call.env.country,
                                  call.env.live, call.env.oks)} :
       \E out \in {ToolOutcome(call.name, call.env, macro)} :
            /\ t_in' = [name |-> call.name, kwargs |-> kwargs, out |-> out,
                        given |-> call.env.given]
            /\ t_out' = [safe |-> SafeExecute(kwargs, out),
                         reg |-> ExecuteTool(RegisterTools, call.name, kwargs, out)]
            /\ store' = IF call.name = MacroTool /\ Runs(call.name, kwargs)
                        THEN macro.store
                        ELSE store
    /\ UNCHANGED <<pc, cache_enabled, now, reachable_at_init, c_last, m_last>>
    /\ UNCHANGED <<execVars, extractVars, loopVars, registryVars, unitVars>>

NextDispatch ==
    \/ MacroConstruct
    \/ \E call \in DispatchCalls, kwargs \in KwargsSet : DispatchCall(call, kwargs)

SpecDispatch == InitDispatch /\ [][NextDispatch]_vars

\* ------------------------------------------------------------ specification: agent loop

\* What the LLM may answer: a stop reason and content blocks; with each block
\* goes what its tool does if the block is executed.
Turn(stop_reason, cases) == [stop_reason |-> stop_reason, cases |-> cases]

MacroRequest(id, out) == [block |-> ToolUseBlock(id, MacroTool, GoodKwargs), out |-> out]

TextCase(text) == [block |-> TextBlock(text), out |-> Return(SuccessDict)]

ToolUseTurns ==
    {Turn("tool_use", <<MacroRequest("a", o)>>) :
        o \in {Return(SuccessDict), Return(UnserializableDict), Return(NonDict),
               Return(ToolErrorCreate(API_UNAVAILABLE, <<"tool failed">>, ERROR, None, <<None>>)),
               Raise("RuntimeError", <<"boom">>)}}
    \cup {Turn("tool_use",
            <<TextCase(<<"thinking">>),
              [block |-> ToolUseBlock("b", "no_such_tool", GoodKwargs), out |-> Return(SuccessDict)],
              [block |-> ToolUseBlock("a", MacroTool, BadKwargs), out |-> Return(SuccessDict)]>>)}

FinalTurns ==
    {Turn(sr, c) :
        sr \in {"end_turn", "max_tokens"},
        c \in {<<TextCase(<<Fence, JsonTag, Ws, "P_ok", Ws, Fence>>)>>,
               <<TextCase(<<GarbagePayload>>)>>,
               <<TextCase(<<"P_empty">>)>>,
               <<TextCase(<<Ws, "P_extra">>)>>,
               <<TextCase(<<"P_badsum">>)>>,
               <<MacroRequest("a", Return(SuccessDict))>>,
               <<MacroRequest("b", Return(SuccessDict)), TextCase(<<"P_ok">>)>>}}

Turns == ToolUseTurns \cup FinalTurns

Init ==
    /\ pc = "start"
    /\ request \in Requests
    /\ iteration = 0
    /\ messages = <<>>
    /\ calls = <<>>
    /\ executions = <<>>
    /\ outcome = Return(NoneVal)
    /\ api_error = "none"
    /\ t_in = NoCall
    /\ t_out = NoAnswer
    /\ e_in = <<>>
    /\ e_out = NoRequests
    /\ x_in = NoResponse
    /\ x_out = Return(NoneVal)
    /\ NoCache
    /\ NoRegistry
    /\ NoUnit

\* generate_portfolio up to the call of _agent_loop: the conversation starts
\* with the user prompt.
GeneratePortfolio ==
    /\ pc = "start"
    /\ pc' = "loop"
    /\ messages' = <<UserMessage(BuildUserPrompt(request))>>
    /\ UNCHANGED <<request, iteration, calls, executions, outcome, api_error>>
    /\ UNCHANGED <<toolVars, execVars, extractVars, cacheVars, macroVars, registryVars, unitVars>>

\* One iteration of the while loop of _agent_loop: the LLM call with the
\* conversation, and all that follows from the response until the loop
\* condition is tested again or the call ends.
AgentLoopIteration(turn) ==
    LET content == Blocks(turn.cases)
        k == iteration + 1
        call == [sent |-> SentMessages(messages),
                 stop_reason |-> turn.stop_reason,
                 content |-> content]
        extracted == GeneratePortfolioExcept(
                        ExtractFinalPortfolio(content, request.investment_amount,
                            request.investment_horizon_years))
    IN  /\ pc = "loop"
        /\ LoopCondition(iteration)
        /\ iteration' = k
        /\ calls' = Append(calls, call)
        /\ IF IsEndTurn(turn.stop_reason)
           THEN /\ outcome' = extracted
                /\ pc' = "done"
                /\ UNCHANGED <<messages, executions>>
           ELSE IF IsToolUseStop(turn.stop_reason)
           THEN \E tool_results \in {ExecuteToolRequests(RegisterTools, content, Outs(turn.cases))} :
                /\ executions' =
                    executions \o [i \in DOMAIN tool_results.log |->
                                      tool_results.log[i] @@ [call |-> k]]
                /\ IF Raised(tool_results)
                   THEN /\ messages' = Append(messages, AssistantMessage(content))
                        /\ outcome' = GeneratePortfolioExcept(
                                            Raise(tool_results.exc, tool_results.msg))
                        /\ pc' = "done"
                   ELSE /\ messages' = AppendTurn(messages, content, tool_results.val)
                        /\ pc' = "loop"
                        /\ UNCHANGED outcome
           ELSE /\ outcome' = extracted
                /\ pc' = "done"
                /\ UNCHANGED <<messages, executions>>
        /\ UNCHANGED <<request, api_error, toolVars, execVars, extractVars>>
        /\ UNCHANGED <<cacheVars, macroVars, registryVars, unitVars>>

\* An iteration whose LLM call raises: _agent_loop has no try around
\* client.messages.create, so the error leaves the loop and reaches the
\* except clauses of generate_portfolio.
LLMCallFails(kind) ==
    /\ pc = "loop"
    /\ LoopCondition(iteration)
    /\ iteration' = iteration + 1
    /\ api_error' = kind
    /\ outcome' = GeneratePortfolioExcept(Raise(kind, <<"provider error">>))
    /\ pc' = "done"
    /\ UNCHANGED <<request, messages, calls, executions>>
    /\ UNCHANGED <<toolVars, execVars, extractVars, cacheVars, macroVars, registryVars, unitVars>>

\* The loop condition fails: max iterations reached without completion.
LoopExhausted ==
    /\ pc = "loop"
    /\ ~LoopCondition(iteration)
    /\ outcome' = GeneratePortfolioExcept(LoopExhaustedError)
    /\ pc' = "done"
    /\ UNCHANGED <<request, iteration, messages, calls, executions, api_error>>
    /\ UNCHANGED <<toolVars, execVars, extractVars, cacheVars, macroVars, registryVars, unitVars>>

Next ==
    \/ GeneratePortfolio
    \/ \E turn \in Turns : AgentLoopIteration(turn)
    \/ \E kind \in ApiErrorKinds : LLMCallFails(kind)
    \/ LoopExhausted

Spec == Init /\ [][Next]_vars

\* The loop is sequential code: it keeps running until it returns or raises.
LiveSpec == Spec /\ WF_vars(Next)

\* ------------------------------------------------------------ specification: concurrent calls

\* What one client.messages.create call yields: a response, or the error
\* the provider raises.
Answered(turn) == [error |-> "none", turn |-> turn]

Failed(kind) == [error |-> kind, turn |-> Turn("", <<>>)]

\* The local variables of generate_portfolio and _agent_loop when the loop
\* is entered: messages holds the user prompt, iteration = 0. answers is the
\* record of what the call's LLM calls yielded.
CallStart(r) ==
    [pc |-> "loop", request |-> r, iteration |-> 0,
     messages |-> <<UserMessage(BuildUserPrompt(r))>>,
     answers |-> <<>>, outcome |-> Return(NoneVal)]

\* The loop condition is tested: the loop goes on, or the call ends with the
\* loop-exhaustion error.
TestLoopCondition(local) ==
    IF LoopCondition(local.iteration)
    THEN local
    ELSE [local EXCEPT !.pc = "done",
                       !.outcome = GeneratePortfolioExcept(LoopExhaustedError)]

\* One pass of the while loop of _agent_loop on the call's local variables,
\* for what the pass's LLM call yields, up to the next test of the loop
\* condition.
LoopPass(local, answer) ==
    LET content == Blocks(answer.turn.cases)
        extracted == GeneratePortfolioExcept(
                        ExtractFinalPortfolio(content, local.request.investment_amount,
                            local.request.investment_horizon_years))
        tool_results == ExecuteToolRequests(RegisterTools, content, Outs(answer.turn.cases))
        counted == [local EXCEPT !.iteration = @ + 1, !.answers = Append(@, answer)]
        Ended(result) == [counted EXCEPT !.pc = "done", !.outcome = result]
    IN  IF answer.error # "none"
        THEN Ended(GeneratePortfolioExcept(Raise(answer.error, <<"provider error">>)))
        ELSE IF IsEndTurn(answer.turn.stop_reason)
        THEN Ended(extracted)
        ELSE IF IsToolUseStop(answer.turn.stop_reason)
        THEN IF Raised(tool_results)
             THEN [Ended(GeneratePortfolioExcept(Raise(tool_results.exc, tool_results.msg)))
                     EXCEPT !.messages = Append(@, AssistantMessage(content))]
             ELSE TestLoopCondition(
                     [counted EXCEPT !.messages = AppendTurn(@, content, tool_results.val)])
        ELSE Ended(extracted)

\* The call run alone: its local variables after its LLM calls yielded the
\* answers, one after the other.
RECURSIVE RunAlone(_, _)
RunAlone(r, answers) ==
    IF answers = <<>>
    THEN CallStart(r)
    ELSE LoopPass(RunAlone(r, SubSeq(answers, 1, Len(answers) - 1)),
                  answers[Len(answers)])

AllocateSame(objects) == 1

\* messages = [...]: a list display creates a new list object; the
\* reference to it is one that no object created before has.
Allocate(objects) == Len(objects) + 1

\* The object a reference names holds the value: a new object's first value,
\* or the value after messages.append.
Store(objects, ref, value) ==
    [i \in 1..(IF ref > Len(objects) THEN ref ELSE Len(objects)) |->
        IF i = ref THEN value ELSE objects[i]]

\* The two callers, and the request each passes.
Callers == {1, 2}

CallerRequest(c) ==
    IF c = 1
    THEN [risk_tolerance |-> "Medium", investment_horizon_years |-> 2, country |-> "USA",
          investment_amount |-> Amount(1000, 0), currency |-> "USD"]
    ELSE [risk_tolerance |-> "High", investment_horizon_years |-> 1, country |-> "India",
          investment_amount |-> Amount(250, 500), currency |-> "INR"]

\* What an LLM call may yield: two tool-use responses, one whose tool
\* succeeds and one whose tool fails; two final responses, one that holds a
\* portfolio and one that does not; and a provider error.
ConcurrentAnswers ==
    {Answered(Turn("tool_use", <<MacroRequest("a", Return(SuccessDict))>>)),
     Answered(Turn("tool_use", <<MacroRequest("b", Raise("RuntimeError", <<"boom">>))>>)),
     Answered(Turn("end_turn", <<TextCase(<<"P_ok">>)>>)),
     Answered(Turn("end_turn", <<TextCase(<<GarbagePayload>>)>>)),
     Failed("RateLimitError")}

\* A caller that has not called yet.
IdleFrame(r) ==
    [pc |-> "idle", request |-> r, iteration |-> 0, messages |-> 0,
     answers |-> <<>>, outcome |-> Return(NoneVal)]

\* The local variables of a call, with the list its messages variable refers to.
Local(c) == [frames[c] EXCEPT !.messages = heap[frames[c].messages]]

\* One AnthropicService instance, which get_anthropic_service returns to both
\* callers; neither has called generate_portfolio yet.
InitConcurrent ==
    /\ pc = "ready"
    /\ frames = [c \in Callers |-> IdleFrame(CallerRequest(c))]
    /\ heap = <<>>
    /\ h_in = NoHttpCall
    /\ h_out = NoHttpResponse
    /\ anthropic_service = "AnthropicService"
    /\ g_in = NoGrowthCall
    /\ g_out = Return(NoneVal)
    /\ NoFallback
    /\ t_in = NoCall
    /\ t_out = NoAnswer
    /\ e_in = <<>>
    /\ e_out = NoRequests
    /\ x_in = NoResponse
    /\ x_out = Return(NoneVal)
    /\ NoLoop
    /\ NoRegistry
    /\ NoCache

\* Caller c calls generate_portfolio: the call runs up to the first test of
\* the loop condition; its messages list is created.
StartCall(c) ==
    /\ frames[c].pc = "idle"
    /\ \E ref \in {Allocate(heap)}, local \in {CallStart(frames[c].request)} :
        /\ heap' = Store(heap, ref, local.messages)
        /\ frames' = [frames EXCEPT ![c] = [local EXCEPT !.messages = ref]]
    /\ UNCHANGED <<pc, g_in, g_out, fallbackVars, httpVars>>
    /\ UNCHANGED <<toolVars, execVars, extractVars, loopVars, cacheVars, macroVars,
                   registryVars>>

\* The call of caller c makes one pass of its loop; the appends go to the
\* list its messages variable refers to.
PassCall(c, answer) ==
    /\ frames[c].pc = "loop"
    /\ \E local \in {LoopPass(Local(c), answer)} :
        /\ heap' = Store(heap, frames[c].messages, local.messages)
        /\ frames' = [frames EXCEPT ![c] = [local EXCEPT !.messages = frames[c].messages]]
    /\ UNCHANGED <<pc, g_in, g_out, fallbackVars, httpVars>>
    /\ UNCHANGED <<toolVars, execVars, extractVars, loopVars, cacheVars, macroVars,
                   registryVars>>

NextConcurrent ==
    \/ \E c \in Callers : StartCall(c)
    \/ \E c \in Callers, answer \in ConcurrentAnswers : PassCall(c, answer)

SpecConcurrent == InitConcurrent /\ [][NextConcurrent]_vars

\* ------------------------------------------------------------ specification: fallback portfolio

MaxHorizon == 2

\* The four countries and three risk tolerances of the DTO, and a value
\* that is none of them.
FallbackCountries == {"USA", "Canada", "EU", "India", "Atlantis"}

FallbackRisks == {"Low", "Medium", "High", "Extreme"}

\* Amounts of 100 and more, with two decimals at most and with more.
FallbackAmounts == {Amount(100, 0), Amount(100, 4), Amount(250, 500)}

\* The request data drawn: no value of the table lies halfway between two
\* hundredths.
FallbackCalls ==
    {c \in [riskTolerance : FallbackRisks, country : FallbackCountries,
            investmentAmount : FallbackAmounts, investmentHorizonYears : 1..MaxHorizon] :
        \A y \in 0..c.investmentHorizonYears :
            ~Halfway(Compounded(c.investmentAmount,
                                CalculateExpectedReturn(c.riskTolerance), y))}

InitFallback ==
    /\ pc = "drawn"
    /\ f_in \in FallbackCalls
    /\ f_out = NoneVal
    /\ g_in = NoGrowthCall
    /\ g_out = Return(NoneVal)
    /\ NoHttp
    /\ NoConcurrent
    /\ t_in = NoCall
    /\ t_out = NoAnswer
    /\ e_in = <<>>
    /\ e_out = NoRequests
    /\ x_in = NoResponse
    /\ x_out = Return(NoneVal)
    /\ NoLoop
    /\ NoRegistry
    /\ NoCache

\* One call of generate_hardcoded_portfolio on the drawn request data.
CallFallback ==
    /\ pc = "drawn"
    /\ pc' = "applied"
    /\ f_out' = GenerateHardcodedPortfolio(f_in)
    /\ UNCHANGED <<f_in, g_in, g_out, httpVars, concurrentVars>>
    /\ UNCHANGED <<toolVars, execVars, extractVars, loopVars, cacheVars, macroVars,
                   registryVars>>

NextFallback == CallFallback

SpecFallback == InitFallback /\ [][NextFallback]_vars

\* ------------------------------------------------------------ specification: handler

\* The JSON body of a request.
RequestJson(r) ==
    JDict([riskTolerance |-> JStr(r.risk_tolerance),
           investmentHorizonYears |-> JNum(r.investment_horizon_years),
           country |-> JStr(r.country),
           investmentAmount |-> JNum(r.investment_amount),
           currency |-> JStr(r.currency)])

\* Bodies: the requests; a body that is no JSON, an empty object, a list; a
\* request without country and one with a horizon of 0.
HttpBodies ==
    <<RequestJson([risk_tolerance |-> "Medium", investment_horizon_years |-> 2,
                   country |-> "USA", investment_amount |-> Amount(1000, 0),
                   currency |-> "USD"]),
      RequestJson([risk_tolerance |-> "High", investment_horizon_years |-> 1,
                   country |-> "India", investment_amount |-> Amount(250, 500),
                   currency |-> "INR"]),
      JNull, JDict(<<>>), JList(<<JNum(1)>>),
      JDict([riskTolerance |-> JStr("Low"), investmentHorizonYears |-> JNum(5),
             investmentAmount |-> JNum(Amount(500, 0))]),
      JDict([riskTolerance |-> JStr("Low"), investmentHorizonYears |-> JNum(0),
             country |-> JStr("EU"), investmentAmount |-> JNum(Amount(500, 0))])>>

\* What generate_portfolio does with the request once the service exists: it
\* returns a portfolio, or raises a provider error, an extraction error or
\* the error of the exhausted loop.
GeneratedOutcomes ==
    {ExtractFinalPortfolio(<<TextBlock(<<"P_ok">>)>>, Amount(1000, 0), 2),
     Raise("APIConnectionError", <<"provider error">>),
     Raise("RateLimitError", <<"provider error">>),
     Raise("ValueError", <<"No text content in final response">>),
     GeneratePortfolioExcept(LoopExhaustedError)}

HttpCall(authorized, method, body, generated) ==
    [authorized |-> authorized, method |-> method, body |-> body, generated |-> generated]

\* The function instance before its first request: _anthropic_service = None.
InitHandler ==
    /\ pc = "ready"
    /\ NoHttp
    /\ g_in = NoGrowthCall
    /\ g_out = Return(NoneVal)
    /\ NoFallback
    /\ NoConcurrent
    /\ t_in = NoCall
    /\ t_out = NoAnswer
    /\ e_in = <<>>
    /\ e_out = NoRequests
    /\ x_in = NoResponse
    /\ x_out = Return(NoneVal)
    /\ NoLoop
    /\ NoRegistry
    /\ NoCache

\* generatePortfolio(request) for one HTTP request
HandleRequest(authorized, method, body, generated) ==
    /\ pc = "ready"
    /\ h_in' = HttpCall(authorized, method, body, generated)
    /\ \E done \in {GeneratePortfolioHandler(anthropic_service, authorized, method, body,
                                             generated)} :
        /\ h_out' = done.response
        /\ anthropic_service' = done.service
    /\ UNCHANGED <<pc, g_in, g_out, fallbackVars, concurrentVars>>
    /\ UNCHANGED <<toolVars, execVars, extractVars, loopVars, cacheVars, macroVars,
                   registryVars>>

NextHandler ==
    \E authorized \in BOOLEAN, method \in {"POST", "GET"}, i \in DOMAIN HttpBodies,
       generated \in GeneratedOutcomes :
        HandleRequest(authorized, method, HttpBodies[i], generated)

SpecHandler == InitHandler /\ [][NextHandler]_vars

\* ------------------------------------------------------------ claims: agent loop

\* Every LLM call made so far was answered, with stop reason tool_use.
AllToolUse ==
    /\ api_error = "none"
    /\ \A k \in DOMAIN calls : calls[k].stop_reason = "tool_use"

\* C1: an invocation never makes more than max_iterations LLM calls; against
\* an LLM that answers every call with stop reason tool_use it ends with the
\* loop-exhaustion RuntimeError after exactly max_iterations calls; and every
\* invocation ends.
C1_LoopTerminatesWithinBound ==
    /\ [](/\ Len(calls) <= max_iterations
          /\ iteration <= max_iterations
          /\ (pc = "done" /\ AllToolUse) =>
                /\ outcome = LoopExhaustedError
                /\ Len(calls) = max_iterations
          /\ (pc = "done" /\ outcome = LoopExhaustedError) => AllToolUse)
    /\ <>(pc = "done")

C1_Witness ==
    /\ pc = "done"
    /\ AllToolUse
    /\ Len(calls) = max_iterations
    /\ outcome.exc = "RuntimeError"

\* The tool_use blocks of the k-th response, in order.
RequestsOf(k) == SelectSeq(calls[k].content, LAMBDA b : b.type = "tool_use")

\* C3: whatever the tools requested by a tool_use response do, the loop
\* does not end because of it: the user turn that follows the response holds
\* a tool_result block for every request, and the invocation goes on to the
\* next LLM call unless the iterations are used up, in which case it ends
\* with the loop-exhaustion error.
C3_ToolFailuresContained ==
    \A k \in DOMAIN calls :
        calls[k].stop_reason = "tool_use" =>
            /\ Len(messages) >= 2 * k + 1
            /\ messages[2 * k + 1].role = "user"
            /\ Len(messages[2 * k + 1].content) = Len(RequestsOf(k))
            /\ \A i \in DOMAIN RequestsOf(k) :
                  /\ messages[2 * k + 1].content[i].type = "tool_result"
                  /\ messages[2 * k + 1].content[i].tool_use_id = RequestsOf(k)[i].id
            /\ (pc = "done" /\ k = Len(calls) /\ api_error = "none") =>
                  k = max_iterations /\ outcome = LoopExhaustedError
            /\ (pc = "loop" /\ k = Len(calls) /\ k < max_iterations) =>
                  \E turn \in Turns : ENABLED AgentLoopIteration(turn)

\* The Registry result of an execution is a Failure with this code and message.
FailedWith(execution, code, message) ==
    /\ ~GetSuccess(execution.result)
    /\ execution.result.error_code = code
    /\ execution.result.error = message

\* Every way a requested tool can fail has happened and the loop goes on.
C3_Witness ==
    /\ pc = "loop"
    /\ Len(calls) = 4
    /\ AllToolUse
    /\ Len(executions) = 5
    /\ FailedWith(executions[1], API_UNAVAILABLE, <<"tool failed">>)
    /\ FailedWith(executions[2], UNKNOWN_ERROR, <<"boom">>)
    /\ executions[3].result = UnserializableDict
    /\ ~executions[4].executed
    /\ FailedWith(executions[5], UNKNOWN_ERROR,
                  <<"execute() got an unexpected keyword argument">>)

\* C7: a response whose stop reason is not tool_use is the last one:
\* extraction is applied to that very response and its result is the
\* invocation's outcome, nothing is appended to the conversation, no tool
\* of the response is executed and no further LLM call is made.
C7_OnlyToolUseContinues ==
    \A k \in DOMAIN calls :
        calls[k].stop_reason # "tool_use" =>
            /\ k = Len(calls)
            /\ pc = "done"
            /\ outcome = ExtractFinalPortfolio(calls[k].content,
                            request.investment_amount, request.investment_horizon_years)
            /\ messages = calls[k].sent
            /\ \A i \in DOMAIN executions : executions[i].call # k

C7_Witness ==
    /\ pc = "done"
    /\ Len(calls) = 2
    /\ calls[2].stop_reason = "max_tokens"
    /\ calls[2].content[1].type = "tool_use"
    /\ ~Raised(outcome)
    /\ Len(executions) = 1

\* The number of responses among the first k that had stop reason tool_use.
ToolUseTurnsUpTo(k) == Cardinality({j \in 1..k : calls[j].stop_reason = "tool_use"})

ConversationWellFormed ==
    pc # "start" =>
        /\ messages[1] = UserMessage(BuildUserPrompt(request))
        /\ \A i \in DOMAIN messages :
              messages[i].role = IF i % 2 = 1 THEN "user" ELSE "assistant"
        /\ Len(messages) = 1 + 2 * ToolUseTurnsUpTo(Len(calls))
        /\ \A k \in DOMAIN calls :
              /\ Len(calls[k].sent) = 1 + 2 * (k - 1)
              /\ calls[k].sent = SubSeq(messages, 1, 2 * k - 1)
              /\ calls[k].stop_reason = "tool_use" =>
                    /\ messages[2 * k] = AssistantMessage(calls[k].content)
                    /\ messages[2 * k + 1].role = "user"
                    /\ Len(messages[2 * k + 1].content) = Len(RequestsOf(k))

\* The conversation only grows: what it held stays as it was.
ConversationAppendOnly ==
    /\ Len(messages') >= Len(messages)
    /\ SubSeq(messages', 1, Len(messages)) = messages
    /\ Len(messages') \in {Len(messages), Len(messages) + 2} \/ pc = "start"

\* C8: the conversation starts with the user prompt and alternates user,
\* assistant, user, ...; each tool-use iteration appends the assistant
\* response with its content blocks as received and then one user message
\* with all tool results of the turn; nothing already in the conversation is
\* changed or removed; the k-th LLM call is sent the whole conversation,
\* 1 + 2(k-1) messages.
C8_ConversationAlternatesAppendOnly ==
    /\ []ConversationWellFormed
    /\ [][ConversationAppendOnly]_vars

C8_Witness ==
    /\ pc = "loop"
    /\ Len(calls) = 3
    /\ Len(messages) = 7
    /\ Len(messages[3].content) = 2
    /\ messages[4].content[1].type = "text"

\* C11: when an LLM call fails with a connection error, a rate-limit error
\* or a generic provider error, generate_portfolio raises an error of that
\* same kind and returns no portfolio, the invocation is over, and from then
\* on no LLM call is made and no tool is executed.
C11_ApiErrorPropagates ==
    /\ [](api_error # "none" =>
            /\ pc = "done"
            /\ outcome.exc = api_error
            /\ outcome.val = NoneVal
            /\ iteration = Len(calls) + 1)
    /\ [][api_error # "none" =>
            UNCHANGED <<iteration, calls, executions, messages, outcome>>]_vars

C11_Witness ==
    /\ api_error = "RateLimitError"
    /\ outcome.exc = "RateLimitError"
    /\ Len(calls) = 2
    /\ Len(executions) = 4

\* ------------------------------------------------------------ claims: tool layer

\* What the drawn tool's execute does on the drawn call.
DrawnExecute == Execute(t_in.kwargs, t_in.out)

IsUnknownFailure(r, message) ==
    /\ ~Raised(r)
    /\ r.val.success = FALSE
    /\ r.val.error_code = UNKNOWN_ERROR
    /\ r.val.error = message

\* C5: safe_execute never raises; when execute raises (a signature mismatch
\* included) or returns a non-dict, it returns a Failure with error_code
\* UNKNOWN_ERROR whose message is str(exception); when execute returns a
\* dict, it returns that dict unchanged.
C5_SafeExecuteNeverRaises ==
    pc = "applied" =>
        /\ ~Raised(t_out.safe)
        /\ Raised(DrawnExecute) => IsUnknownFailure(t_out.safe, DrawnExecute.msg)
        /\ (~Raised(DrawnExecute) /\ ~IsDict(DrawnExecute.val)) =>
              IsUnknownFailure(t_out.safe, <<"object has no attribute 'get'">>)
        /\ (~Raised(DrawnExecute) /\ IsDict(DrawnExecute.val)) =>
              t_out.safe.val = DrawnExecute.val

C5_Witness ==
    /\ pc = "applied"
    /\ t_in.kwargs = GoodKwargs
    /\ t_in.out = Raise("TypeError", <<"boom">>)
    /\ t_out.safe.val.error_code = UNKNOWN_ERROR

\* C6: execute_tool never raises; for a name that is not registered it
\* returns a Failure with error_code UNKNOWN_ERROR and no tool's execute is
\* invoked; for a registered name it returns what safe_execute returns.
C6_ExecuteToolNeverRaises ==
    pc = "applied" =>
        /\ ~Raised(t_out.reg)
        /\ t_in.name \notin DOMAIN RegisterTools =>
              /\ t_out.reg.val.success = FALSE
              /\ t_out.reg.val.error_code = UNKNOWN_ERROR
              /\ ~t_out.reg.executed
        /\ t_in.name \in DOMAIN RegisterTools =>
              /\ t_out.reg.executed
              /\ t_out.reg.exc = t_out.safe.exc
              /\ t_out.reg.val = t_out.safe.val

C6_Witness ==
    /\ pc = "applied"
    /\ t_in.name = "no_such_tool"
    /\ t_in.out = Raise("KeyError", <<"boom">>)
    /\ t_out.reg.val.error_code = UNKNOWN_ERROR
    /\ ~t_out.reg.executed

\* ------------------------------------------------------------ claims: tool requests

\* The ids of the tool_use blocks of a content, in order.
RequestedIds(content) ==
    LET uses == SelectSeq(content, LAMBDA b : b.type = "tool_use")
    IN  [i \in DOMAIN uses |-> uses[i].id]

ResultIds(results) == [i \in DOMAIN results |-> results[i].tool_use_id]

\* C2: _execute_tool_requests returns one tool_result block per tool_use
\* block, with the tool_use ids in the order of the response, whatever the
\* tools do; other blocks produce no result block.
C2_ResultsMatchRequests ==
    pc = "applied" =>
        /\ ~Raised(e_out)
        /\ ResultIds(e_out.val) = RequestedIds(Blocks(e_in))
        /\ \A i \in DOMAIN e_out.val : e_out.val[i].type = "tool_result"

C2_Witness ==
    /\ pc = "applied"
    /\ Len(e_in) = 3
    /\ ResultIds(e_out.val) = <<"c", "a", "b">>
    /\ e_in[1].out = Return(SuccessDict)
    /\ e_in[2].out = Raise("RuntimeError", <<"boom">>)
    /\ e_in[3].block.name = "no_such_tool"

IsErrorBlock(b) == "is_error" \in DOMAIN b /\ b.is_error

\* C4: a tool_result block is marked is_error exactly when the Registry
\* result of its request was a Failure (success = false).
C4_ErrorBlockIffFailure ==
    pc = "applied" =>
        \A i \in DOMAIN e_out.val :
            IsErrorBlock(e_out.val[i]) <=> ~GetSuccess(e_out.log[i].result)

\* ------------------------------------------------------------ claims: extraction

\* What the text of a text block is as JSON once the fences are stripped.
ParsedText(block) == JsonLoads(StripFences(block.text))

\* A parsed value with the three required fields and a non-empty list of
\* recommendations.
IsWellFormedPortfolio(data) ==
    /\ data.t = "dict"
    /\ {"recommendations", "totalExpectedReturn", "riskScore"} \subseteq DOMAIN data.v
    /\ data.v.recommendations.t = "list"
    /\ data.v.recommendations.v # <<>>

HasWellFormedText(content) ==
    \E i \in DOMAIN content :
        /\ content[i].type = "text"
        /\ content[i].text # <<>>
        /\ ~Raised(ParsedText(content[i]))
        /\ IsWellFormedPortfolio(ParsedText(content[i]).val)

\* C9: extraction returns a portfolio only for a response with a text block
\* of non-empty text that parses, fences stripped, as JSON with all three
\* required fields and a non-empty recommendations list; every other
\* response makes it raise and return nothing; a returned portfolio has the
\* three fields and a non-empty recommendations list.
C9_ExtractionValidates ==
    pc = "applied" =>
        /\ ~HasWellFormedText(x_in.content) => Raised(x_out) /\ x_out.val = NoneVal
        /\ ~Raised(x_out) => IsWellFormedPortfolio(x_out.val)

C9_Witness ==
    /\ pc = "applied"
    /\ x_in.content = <<TextBlock(<<Fence, JsonTag, Ws, "P_ok", Ws, Fence>>)>>
    /\ ~Raised(x_out)
    /\ Len(x_out.val.v.recommendations.v) = 2

\* The response's first text block parses but its structure is rejected: a
\* required field is missing, recommendations is no list or is empty.
IsMalformedStructure(content) ==
    /\ HasText(content)
    /\ ~Raised(ParsedText(TextBlocks(content)[1]))
    /\ LET data == ParsedText(TextBlocks(content)[1]).val
       IN  /\ data.t = "dict"
           /\ \/ ~({"recommendations", "totalExpectedReturn", "riskScore"} \subseteq DOMAIN data.v)
              \/ data.v.recommendations.t # "list"
              \/ data.v.recommendations.v = <<>>

\* The response's first text block does not parse as JSON.
IsUnparsable(content) ==
    HasText(content) /\ Raised(ParsedText(TextBlocks(content)[1]))

\* The kind of error extraction raises for a JSON parse failure.
ParseFailureKind == ExtractFinalPortfolio(<<TextBlock(<<GarbagePayload>>)>>, Amount(1000, 0), 2).exc

StructureMessages ==
    {"Claude response missing required fields", "recommendations must be a list",
     "recommendations list is empty"}

StoredNoOlderThan(age) ==
    /\ GenerateCacheKey(c_last.kwargs) \in DOMAIN store
    /\ HasTimestamp(store[GenerateCacheKey(c_last.kwargs)])
    /\ c_last.at - store[GenerateCacheKey(c_last.kwargs)].cached_at <= age

StoredEntry == store[GenerateCacheKey(c_last.kwargs)]

\* The store answered the last operation of a cache that is enabled.
Served == cache_enabled /\ c_last.store_ok

\* C12: get returns a payload only if an entry is stored under the key,
\* carries cached_at and now - cached_at <= ttl, and then the payload is the
\* stored one; a cache that is enabled and whose store answers returns it
\* for every such entry, one aged exactly ttl included; in every other case
\* get returns None, as for a key never cached.
C12_GetReturnsFreshEntryOnly ==
    c_last.op = "get" =>
        /\ ~Raised(c_last.answer)
        /\ c_last.answer.val # NoneVal =>
              StoredNoOlderThan(c_last.arg) /\ c_last.answer.val = StoredEntry.value
        /\ (Served /\ StoredNoOlderThan(c_last.arg)) => c_last.answer.val = StoredEntry.value

C12_Witness ==
    /\ c_last.op = "get"
    /\ c_last.arg = 2
    /\ c_last.kwargs = GdpUsa
    /\ StoredNoOlderThan(2)
    /\ c_last.at - StoredEntry.cached_at = 2
    /\ c_last.answer.val = [indicators |-> "v2"]

\* The entry the last operation's key names is stored, carries cached_at and
\* was, when the operation ran, older than age.
StoredOlderThan(age) ==
    /\ GenerateCacheKey(c_last.kwargs) \in DOMAIN store
    /\ HasTimestamp(store[GenerateCacheKey(c_last.kwargs)])
    /\ c_last.at - store[GenerateCacheKey(c_last.kwargs)].cached_at > age

\* The answer is the payload with the staleness metadata added to it.
IsStaleAnswer(answer, entry, age) ==
    /\ "_cache_metadata" \in DOMAIN answer
    /\ answer["_cache_metadata"].is_stale = TRUE
    /\ answer["_cache_metadata"].age_hours = age
    /\ answer["_cache_metadata"].cached_at = [isoformat |-> entry.cached_at]
    /\ \A f \in DOMAIN entry.value : answer[f] = entry.value[f]

\* C13: for an entry older than the fresh TTL get returns None; get_stale of
\* a cache that is enabled and whose store answers returns, for an entry no
\* older than max_age, the payload with the metadata is_stale = true, its
\* age and cached_at; for an entry older than max_age get_stale returns None.
C13_StaleServedWithinMaxAge ==
    /\ (c_last.op = "get" /\ StoredOlderThan(c_last.arg)) => c_last.answer.val = NoneVal
    /\ c_last.op = "get_stale" =>
        /\ ~Raised(c_last.answer)
        /\ (Served /\ StoredNoOlderThan(c_last.arg)) =>
              IsStaleAnswer(c_last.answer.val, StoredEntry, c_last.at - StoredEntry.cached_at)
        /\ StoredOlderThan(c_last.arg) => c_last.answer.val = NoneVal

\* An entry two hours old, past every fresh TTL drawn, served by get_stale.
C13_Witness ==
    /\ c_last.op = "get_stale"
    /\ c_last.arg = 2
    /\ StoredOlderThan(1)
    /\ StoredNoOlderThan(2)
    /\ c_last.answer.val # NoneVal
    /\ c_last.answer.val["_cache_metadata"].age_hours = 2

\* What an operation answers when it does nothing: None, and False for set.
Miss(op) == IF op = "set" THEN PyBool(FALSE) ELSE NoneVal

\* C14: a cache constructed while the store is unreachable has cache_enabled
\* false and keeps it false; its get and get_stale return None and its set
\* returns False, without a call to the store and without a change of it;
\* no get, get_stale or set raises, enabled or not, and when the store fails
\* during the operation get and get_stale return None and set returns False.
C14_DisabledCacheIsSilent ==
    /\ []((pc = "ready" /\ ~reachable_at_init) => ~cache_enabled)
    /\ [](c_last.op # "none" =>
            /\ ~Raised(c_last.answer)
            /\ ~cache_enabled =>
                  /\ c_last.answer.val = Miss(c_last.op)
                  /\ c_last.answer.store_calls = <<>>
            /\ ~c_last.store_ok => c_last.answer.val = Miss(c_last.op))
    /\ [][(pc = "ready" /\ ~cache_enabled) => (~cache_enabled' /\ store' = store)]_vars
    /\ [][~c_last'.store_ok => store' = store]_vars

C14_Witness ==
    /\ pc = "ready"
    /\ ~reachable_at_init
    /\ ~cache_enabled
    /\ c_last.op = "set"
    /\ c_last.store_ok
    /\ c_last.kwargs = Canada
    /\ c_last.answer.val = PyBool(FALSE)
    /\ now = 2
    /\ store # EmptyStore

\* The same parameter names and values, in whatever order.
SameParams(p, q) == {p[i] : i \in DOMAIN p} = {q[i] : i \in DOMAIN q}

\* C15: the key depends on the parameter set only: an entry stored by set
\* under one ordering of the parameters lies under the key that get and
\* get_stale compute for every other ordering of them, there is one entry
\* per parameter set, and a read with another ordering is answered from it.
C15_KeyIgnoresParameterOrder ==
    /\ \A p, q \in CacheKwargs :
          SameParams(p, q) <=> GenerateCacheKey(p) = GenerateCacheKey(q)
    /\ \A k \in DOMAIN store :
          /\ k = GenerateCacheKey(store[k].key_params)
          /\ \A k2 \in DOMAIN store :
                SameParams(store[k].key_params, store[k2].key_params) => k = k2
          /\ (c_last.op \in {"get", "get_stale"}
                /\ SameParams(store[k].key_params, c_last.kwargs)) =>
                /\ k = GenerateCacheKey(c_last.kwargs)
                /\ (Served /\ StoredNoOlderThan(c_last.arg)) =>
                      /\ c_last.answer.val # NoneVal
                      /\ c_last.answer.val.indicators = store[k].value.indicators

C15_Witness ==
    /\ c_last.op = "get"
    /\ c_last.kwargs = GdpUsa
    /\ GenerateCacheKey(GdpUsa) \in DOMAIN store
    /\ StoredEntry.key_params = UsaGdp
    /\ c_last.answer.val = [indicators |-> "v1"]

\* The entries under keys other than key are the same in st and in st2.
SameElsewhere(st, st2, key) ==
    /\ DOMAIN st2 \ {key} = DOMAIN st \ {key}
    /\ \A k \in DOMAIN st \ {key} : st2[k] = st[k]

\* C16: get and get_stale leave the store as it is, so an entry get reports
\* as expired stays stored with its value and cached_at; the store changes
\* only in a set, which writes the one entry under its key and leaves every
\* other entry alone.
C16_ReadsLeaveStoreUnchanged ==
    /\ [][c_last'.op \in {"get", "get_stale"} => store' = store]_vars
    /\ [][store' # store =>
            /\ c_last'.op = "set"
            /\ GenerateCacheKey(c_last'.kwargs) \in DOMAIN store'
            /\ store'[GenerateCacheKey(c_last'.kwargs)] =
                    CacheEntry(c_last'.value, now, c_last'.kwargs)
            /\ SameElsewhere(store, store', GenerateCacheKey(c_last'.kwargs))]_vars
    /\ []((c_last.op = "get" /\ Served /\ c_last.answer.val = NoneVal
            /\ GenerateCacheKey(c_last.kwargs) \in DOMAIN store
            /\ HasTimestamp(StoredEntry)) =>
                /\ StoredOlderThan(c_last.arg)
                /\ StoredEntry.value \in CachePayloads)

\* get has reported an entry as expired while another entry is stored too.
C16_Witness ==
    /\ c_last.op = "get"
    /\ Served
    /\ StoredOlderThan(c_last.arg)
    /\ c_last.answer.val = NoneVal
    /\ StoredEntry.value = [indicators |-> "v2"]
    /\ Cardinality(DOMAIN store) = 2

\* ------------------------------------------------------------ claims: macro tool

MacroKey(country) == GenerateCacheKey(CountryKwargs(country))

\* The store holds an entry for the country that is no older than age at t.
HeldWithin(st, country, t, age) ==
    /\ MacroKey(country) \in DOMAIN st
    /\ t - st[MacroKey(country)].cached_at <= age

\* A step of execute: the tool is constructed and the clock stands still.
ExecuteStep == pc = "ready" /\ now' = now

\* The fresh lookup of the execute that e records finds an entry, on the
\* store as it is before the call.
FreshHit(e) ==
    cache_enabled /\ e.oks.get /\ HeldWithin(store, e.country, now, FreshTtlHours)

\* The stale lookup finds one.
StaleHit(e) ==
    cache_enabled /\ e.oks.next /\ HeldWithin(store, e.country, now, StaleMaxAgeHours)

CalledStale(e) == \E i \in DOMAIN e.trace : e.trace[i] = "get_stale"

Writes(e) == {i \in DOMAIN e.trace : e.trace[i] = "set"}

\* C17: execute consults fresh cache, live fetch, stale cache in that order:
\* a fresh hit gives Success with from_cache true, the stored data and no
\* fetch; get_stale is called only after a fresh miss and a failed fetch;
\* stale data served is a Success with a CACHE_STALE warning of severity
\* warning; the result is a Failure API_UNAVAILABLE exactly when the stale
\* lookup was made and missed too.
C17_SourcesInFixedOrder ==
    [][ExecuteStep =>
        \E e \in {m_last'} :
            /\ e.trace \in {<<"get">>, <<"get", "fetch", "set">>,
                            <<"get", "fetch", "get_stale">>}
            /\ FreshHit(e) =>
                /\ e.trace = <<"get">>
                /\ e.result = [success |-> TRUE, from_cache |-> TRUE,
                               data |-> store[MacroKey(e.country)].value]
            /\ CalledStale(e) =>
                /\ ~FreshHit(e)
                /\ Raised(e.fetch)
                /\ e.trace = <<"get", "fetch", "get_stale">>
            /\ (CalledStale(e) /\ StaleHit(e)) =>
                /\ e.result.success = TRUE
                /\ e.result.from_cache = TRUE
                /\ "error_code" \notin DOMAIN e.result
                /\ e.result.warning.error_code = CACHE_STALE
                /\ e.result.warning.severity = WARNING
                /\ IsStaleAnswer(e.result.data, store[MacroKey(e.country)],
                                 now - store[MacroKey(e.country)].cached_at)
            /\ (~GetSuccess(e.result) /\ e.result.error_code = API_UNAVAILABLE)
                <=> (CalledStale(e) /\ ~StaleHit(e))
    ]_vars

\* A fetch has failed for an entry written 721 hours before, and the entry
\* was served stale with the warning.
C17_Witness ==
    /\ m_last.trace = <<"get", "fetch", "get_stale">>
    /\ Raised(m_last.fetch)
    /\ m_last.at = FreshTtlHours + 1
    /\ "warning" \in DOMAIN m_last.result
    /\ m_last.result.warning.error_code = CACHE_STALE
    /\ m_last.result.data["_cache_metadata"].age_hours = FreshTtlHours + 1

\* C18: the store changes only in an execute that missed the fresh cache and
\* fetched successfully for a supported country, by the one entry holding
\* the data the call returns, written by its only set; such an execute
\* writes that entry whenever the cache is enabled and the store answers;
\* so the store holds entries only for supported countries.
C18_WriteOnlyAfterMissAndFetch ==
    /\ [][/\ ~ExecuteStep => store' = store
          /\ ExecuteStep =>
                \E e \in {m_last'} :
                    /\ Cardinality(Writes(e)) <= 1
                    /\ store' # store =>
                        /\ ~FreshHit(e)
                        /\ e.country \in SupportedCountries
                        /\ ~Raised(e.fetch)
                        /\ e.trace = <<"get", "fetch", "set">>
                        /\ e.result = [success |-> TRUE, from_cache |-> FALSE,
                                       data |-> e.fetch.val]
                        /\ store' = StoreWrite(store, MacroKey(e.country),
                                        CacheEntry(e.result.data, now,
                                                   CountryKwargs(e.country)))
                    /\ (/\ ~FreshHit(e)
                        /\ e.country \in SupportedCountries
                        /\ ~Raised(e.fetch)
                        /\ cache_enabled
                        /\ e.oks.next) =>
                        /\ Cardinality(Writes(e)) = 1
                        /\ store'[MacroKey(e.country)].value = e.result.data
                        /\ store'[MacroKey(e.country)].cached_at = now
       ]_vars
    /\ [](\A key \in DOMAIN store :
            \E country \in SupportedCountries : key = MacroKey(country))

\* An entry that had expired was fetched again and written, next to the
\* entry of another country.
C18_Witness ==
    /\ m_last.trace = <<"get", "fetch", "set">>
    /\ m_last.at = FreshTtlHours + 1
    /\ Cardinality(DOMAIN store) = 2
    /\ MacroKey(m_last.country) \in DOMAIN store
    /\ store[MacroKey(m_last.country)] =
            CacheEntry(m_last.result.data, m_last.at, CountryKwargs(m_last.country))
    /\ \E key \in DOMAIN store : store[key].cached_at = 0

\* ------------------------------------------------------------ claims: registry

\* The first tool passed to register under the name.
FirstRegistered(name) ==
    registered[CHOOSE i \in DOMAIN registered :
                    /\ registered[i].name = name
                    /\ \A j \in 1..(i - 1) : registered[j].name # name]

\* C20: a registration under a name that is already registered is rejected:
\* after any sequence of register calls each name maps to the first tool
\* registered under it.
C20_FirstRegistrationKept ==
    \A name \in DOMAIN registry_tools : registry_tools[name] = FirstRegistered(name)

\* ------------------------------------------------------------ claims: the two variants

\* A Success: success is true, there is a data payload and no top-level
\* error_code.
IsSuccessVariant(r) ==
    /\ "success" \in DOMAIN r
    /\ r.success = TRUE
    /\ "data" \in DOMAIN r
    /\ "error_code" \notin DOMAIN r

\* A Failure: success is false, with one of the seven codes, a message, a
\* severity and a user_message.
IsFailureVariant(r) ==
    /\ "success" \in DOMAIN r
    /\ r.success = FALSE
    /\ "error_code" \in DOMAIN r
    /\ r.error_code \in ErrorCodes
    /\ "error" \in DOMAIN r
    /\ "severity" \in DOMAIN r
    /\ r.severity \in {WARNING, ERROR}
    /\ "user_message" \in DOMAIN r
    /\ r.user_message # <<>>

\* C19: every result execute_tool returns, for each registered tool, an
\* unknown name, any arguments and any store or fetch outcome, is a Success
\* or a Failure and not both.
C19_ResultIsOneVariant ==
    t_in.name # "" =>
        /\ ~Raised(t_out.reg)
        /\ IsSuccessVariant(t_out.reg.val) # IsFailureVariant(t_out.reg.val)

\* execute_tool has returned a Success that carries a warning (the macro
\* tool served stale data) with entries of two countries in the cache.
C19_Witness ==
    /\ t_in.name = MacroTool
    /\ IsSuccessVariant(t_out.reg.val)
    /\ "warning" \in DOMAIN t_out.reg.val
    /\ t_out.reg.val.warning.error_code = CACHE_STALE
    /\ Cardinality(DOMAIN store) = 2

\* ------------------------------------------------------------ claims: projected growth

\* v, in hundredths, is initial_amount * (1 + annual_return_pct/100)^year
\* rounded to 2 decimals: no hundredth is nearer to that product.
IsRounded(v, initial_amount, annual_return_pct, year) ==
    \E d \in {10 * GrowthDen(annual_return_pct) ^ year} :
    \E n \in {initial_amount * GrowthNum(annual_return_pct) ^ year} :
        /\ 2 * (v * d - n) <= d
        /\ 2 * (n - v * d) <= d

\* The table has years + 1 entries, for the years 0, 1, ..., years in
\* increasing order, each with the compound value rounded to 2 decimals.
IsGrowthTable(table, initial_amount, annual_return_pct, years) ==
    /\ Len(table) = years + 1
    /\ \A i \in 1..Len(table) :
        /\ table[i].year = i - 1
        /\ IsRounded(table[i].projectedValue, initial_amount, annual_return_pct, i - 1)

\* The hundredths of a value equal the amount, held in thousandths, exactly.
EqualsAmount(v, amount) == v * 10 = amount

AddedFields == {"projectedGrowth", "generatedAt", "error"}

\* What the model sent in the final response of the call: the JSON of the
\* first text block.
ModelPortfolio == ParsedText(TextBlocks(calls[Len(calls)].content)[1]).val

Returned == pc = "done" /\ ~Raised(outcome)

\* C22: a portfolio generate_portfolio returns has error = null, the
\* timestamp and the growth table of the request's amount and horizon at the
\* extracted totalExpectedReturn, whatever the model's JSON held in these
\* three fields; every other field is the model's, unchanged, and no field
\* is lost or added.
C22_ReturnedPortfolioIsCompleted ==
    Returned =>
        /\ outcome.val.v.error.t = "null"
        /\ outcome.val.v.generatedAt.t = "str"
        /\ outcome.val.v.generatedAt.v = <<Timestamp>>
        /\ outcome.val.v.projectedGrowth.t = "list"
        /\ IsGrowthTable(outcome.val.v.projectedGrowth.v, request.investment_amount,
                         ModelPortfolio.v.totalExpectedReturn.v,
                         request.investment_horizon_years)
        /\ DOMAIN outcome.val.v = DOMAIN ModelPortfolio.v \cup AddedFields
        /\ \A f \in DOMAIN ModelPortfolio.v \ AddedFields :
                outcome.val.v[f] = ModelPortfolio.v[f]

\* A portfolio was returned for a model answer that held an error, a
\* timestamp and an empty growth table of its own, and a further field.
C22_Witness ==
    /\ Returned
    /\ AddedFields \subseteq DOMAIN ModelPortfolio.v
    /\ ModelPortfolio.v.error = JStr("model error")
    /\ ModelPortfolio.v.projectedGrowth = JList(<<>>)
    /\ outcome.val.v.summary = JStr("note")
    /\ request.investment_amount = Amount(250, 500)
    /\ Len(outcome.val.v.projectedGrowth.v) = 2
    /\ outcome.val.v.projectedGrowth.v[2].projectedValue = 31313

\* ------------------------------------------------------------ claims: fences

\* The text P in a fenced code block with the json tag, a newline after the
\* opening line and one before the closing fence; and in a block with no tag.
FencedJson(P) == <<Fence, JsonTag, Ws>> \o P \o <<Ws, Fence>>

FencedPlain(P) == <<Fence, Ws>> \o P \o <<Ws, Fence>>

\* Extraction of a response whose one text block holds the text, for the
\* drawn request.
ExtractText(text) ==
    ExtractFinalPortfolio(<<TextBlock(text)>>, x_in.request.investment_amount,
                          x_in.request.investment_horizon_years)

\* The same structure, or an error of the same kind.
SameOutcome(a, b) ==
    /\ Raised(a) <=> Raised(b)
    /\ Raised(a) => a.exc = b.exc
    /\ ~Raised(a) => a.val = b.val

IsOneText(content) == Len(content) = 1 /\ content[1].type = "text"

\* The drawn response is one text block; its text is taken as the payload P.
BareText == x_in.content[1].text

\* C23 as claimed: for every payload text P, extraction of P in a json
\* fence, of P in a fence without tag and of bare P give the same outcome.
C23_FenceRoundTripAnyText ==
    pc = "applied" /\ IsOneText(x_in.content) =>
        /\ SameOutcome(x_out, ExtractText(FencedJson(BareText)))
        /\ SameOutcome(x_out, ExtractText(FencedPlain(BareText)))

\* P, surrounding whitespace aside, starts with a code fence of its own.
StartsFenced(P) == StartsWith(Strip(P), Fence)

\* C23 as amended: for every payload text P that does not itself start with
\* a code fence, the three extractions give the same outcome.
C23_FenceRoundTripUnfencedText ==
    pc = "applied" /\ IsOneText(x_in.content) /\ ~StartsFenced(BareText) =>
        /\ SameOutcome(x_out, ExtractText(FencedJson(BareText)))
        /\ SameOutcome(x_out, ExtractText(FencedPlain(BareText)))

\* The bare payload was extracted, and so is the payload in either fence.
C23_Witness ==
    /\ pc = "applied"
    /\ x_in.content = <<TextBlock(<<"P_ok">>)>>
    /\ ~Raised(x_out)
    /\ ExtractText(FencedJson(<<"P_ok">>)) = x_out
    /\ ExtractText(FencedPlain(<<"P_ok">>)) = x_out

\* ------------------------------------------------------------ claims: allocation closure

\* C24: the allocations of every portfolio generate_portfolio returns sum
\* to 100.0 within the tolerance; model output outside the tolerance is
\* never returned as a successful result.
C24_ReturnedAllocationsSumToTarget ==
    Returned => AllocationSumPassed(outcome.val.v.recommendations.v)

\* ------------------------------------------------------------ claims: handler fallback

\* The fields of a portfolio as the consumer reads it.
PortfolioFields ==
    {"recommendations", "totalExpectedReturn", "riskScore", "projectedGrowth",
     "generatedAt", "error"}

\* The request passed the handler's validation: key, method, JSON object with
\* the four required fields.
Validated(call) ==
    /\ call.authorized
    /\ call.method = "POST"
    /\ call.body.t = "dict"
    /\ \A key \in {"riskTolerance", "investmentHorizonYears", "country", "investmentAmount"} :
            ~Falsy(JsonGet(call.body, key, JNull))

Handled == h_in.method # ""

\* The try block of the handled request raised: the service could not be
\* created, or its generate_portfolio raised.
GenerationRaised == anthropic_service = None \/ Raised(h_in.generated)

IsPortfolio(data) == data.t = "dict" /\ PortfolioFields \subseteq DOMAIN data.v

\* C25: a validated request is answered with a portfolio: the generated one
\* with error = null, or, when the generation raised, a fallback portfolio
\* of the same shape whose error field is not null.
C25_FailedGenerationAnsweredWithFallback ==
    Handled /\ Validated(h_in) =>
        /\ h_out.status = 200
        /\ IsPortfolio(h_out.data)
        /\ GenerationRaised <=> h_out.data.v.error.t # "null"

\* ------------------------------------------------------------ claims: fallback portfolio

RECURSIVE SumOfAllocations(_)
SumOfAllocations(stocks) ==
    IF stocks = <<>> THEN 0 ELSE Head(stocks).v.allocation + SumOfAllocations(Tail(stocks))

\* The country and risk tolerance values of the DTO's enums.
KnownCountries == DOMAIN country_stock_map

KnownRisks == DOMAIN risk_category_map

\* The pool and category the claim names for a country and a risk value.
ClaimedStocks(country, risk) ==
    LET pool == IF country \in KnownCountries THEN country_stock_map[country] ELSE usa_stocks
        category == IF risk \in KnownRisks THEN risk_category_map[risk] ELSE "moderate"
    IN  pool[category]

\* All of the claim but the year-0 value: 4 recommendations of the claimed
\* pool and category whose allocations sum to 100, a riskScore in [0, 100],
\* error = None, and a table with one entry for each year 0..horizon.
FallbackShape ==
    /\ f_out.v.recommendations = ClaimedStocks(f_in.country, f_in.riskTolerance)
    /\ Len(f_out.v.recommendations) = 4
    /\ SumOfAllocations(f_out.v.recommendations) = 100
    /\ f_out.v.riskScore >= 0 /\ f_out.v.riskScore <= 100
    /\ f_out.v.error = NoneVal
    /\ Len(f_out.v.projectedGrowth) = f_in.investmentHorizonYears + 1
    /\ \A i \in DOMAIN f_out.v.projectedGrowth : f_out.v.projectedGrowth[i].v.year = i - 1

FundamentalsSucceeded ==
    /\ t_in.name = StockFundamentalsTool
    /\ Runs(t_in.name, t_in.kwargs)
    /\ ~Raised(t_in.out)
    /\ t_in.out.val.success

\* missing_count, taken as 0 when the result has no warning
MissingCount(result) ==
    IF "warning" \in DOMAIN result THEN result.warning.missing_count ELSE 0

\* The last call was get_stock_fundamentals with a list of more than 30
\* symbols.
TooManySymbols ==
    /\ t_in.name = StockFundamentalsTool
    /\ Runs(t_in.name, t_in.kwargs)
    /\ t_in.given.is_list
    /\ Len(t_in.given.items) > MaxSymbols

\* C30: in every Success result of StockFundamentalsTool.execute, with
\* duplicates and differently-cased spellings among the symbols,
\* symbols_found + missing_count = symbols_requested, symbols_found >= 1 and
\* symbols_found is the number of entries of fundamentals; more than 30
\* symbols give INVALID_PARAMETERS whatever a store read would do
\* (API_UNAVAILABLE on a tool that has no collection).
C30_EverySymbolCountedOnce ==
    /\ FundamentalsSucceeded =>
        /\ t_in.out.val.data.symbols_found + MissingCount(t_in.out.val)
                = t_in.out.val.data.symbols_requested
        /\ t_in.out.val.data.symbols_found >= 1
        /\ t_in.out.val.data.symbols_found
                = Cardinality(DOMAIN t_in.out.val.data.fundamentals)
    /\ TooManySymbols =>
        /\ ~Raised(t_in.out)
        /\ ~t_in.out.val.success
        /\ t_in.out.val.error_code \in {INVALID_PARAMETERS, API_UNAVAILABLE}

\* ------------------------------------------------------------ claims: executions per request

\* The Registry executions made for the k-th response, in order.
ExecutionsOf(k) == SelectSeq(executions, LAMBDA e : e.call = k)

\* The executions made for the k-th response are one for each of its
\* tool_use blocks, in block order, each with the block's name and input.
OneExecutionPerRequest(k) ==
    /\ Len(ExecutionsOf(k)) = Len(RequestsOf(k))
    /\ \A i \in DOMAIN RequestsOf(k) :
        /\ ExecutionsOf(k)[i].name = RequestsOf(k)[i].name
        /\ ExecutionsOf(k)[i].input = RequestsOf(k)[i].input
        /\ ExecutionsOf(k)[i].id = RequestsOf(k)[i].id

\* Every execution belongs to a response received, those of a response
\* with stop reason tool_use are one per tool_use block, a response with
\* another stop reason has none, and the executions of an earlier response
\* all come before those of a later one.
ExecutionsFollowResponses ==
    /\ \A i \in DOMAIN executions : executions[i].call \in DOMAIN calls
    /\ \A k \in DOMAIN calls :
        IF calls[k].stop_reason = "tool_use"
        THEN OneExecutionPerRequest(k)
        ELSE ExecutionsOf(k) = <<>>
    /\ \A i, j \in DOMAIN executions : i < j => executions[i].call <= executions[j].call

\* A step that makes an execution is the step of the response that requested
\* it: the execution is made after that response and before the next LLM call,
\* and a step without a response, or after the invocation's end, makes none.
ExecutionsOnlyWithResponse ==
    /\ executions' # executions =>
        /\ Len(calls') = Len(calls) + 1
        /\ \A i \in DOMAIN executions' :
            i > Len(executions) => executions'[i].call = Len(calls')
    /\ pc = "done" => executions' = executions

\* C28: within one invocation each tool_use block of a response with stop
\* reason tool_use triggers exactly one Registry execution, with the block's
\* name and input, in block order, after that response and before the next
\* LLM call; no tool is executed before the first response, after the final
\* one, or a second time for the same request.
C28_OneExecutionPerToolUseBlock ==
    /\ []ExecutionsFollowResponses
    /\ [][ExecutionsOnlyWithResponse]_vars

\* A response with a text block and two requests was followed by two
\* executions, in block order, and by a second response with one request.
C28_Witness ==
    /\ Len(calls) = 2
    /\ calls[1].stop_reason = "tool_use"
    /\ Len(calls[1].content) = 3
    /\ Len(executions) = 3
    /\ executions[1].name = "no_such_tool" /\ executions[1].call = 1
    /\ executions[2].name = MacroTool /\ executions[2].call = 1
    /\ executions[3].call = 2

\* ------------------------------------------------------------ claims: the four tools

\* The tools the module docstring of tool_registry.py lists.
FourTools == {MacroTool, StockUniverseTool, StockFundamentalsTool, MarketSentimentTool}

\* _register_tools has run on a new registry, to its end or to an exception.
Constructed == pc \in {"constructed", "raised"}

\* C27: after construction the registry holds the four tools,
\* get_anthropic_tools offers one spec for each of them, market sentiment
\* included, and each of them can be dispatched by name.
C27_FourToolsRegisteredAndOffered ==
    Constructed =>
        /\ pc = "constructed"
        /\ DOMAIN registry_tools = FourTools
        /\ GetAnthropicTools(registry_tools) = FourTools
        /\ \A name \in FourTools : ~Raised(GetTool(registry_tools, name))

\* ------------------------------------------------------------ claims: concurrent calls

\* The call of caller c is as it would be had it run alone with the answers
\* its own LLM calls yielded: the same conversation, which starts with its
\* own user prompt, the same iteration count, which is the number of its own
\* LLM calls, and the same position and outcome.
AsRunAlone(c) ==
    \E alone \in {RunAlone(frames[c].request, frames[c].answers)} :
        /\ heap[frames[c].messages] = alone.messages
        /\ heap[frames[c].messages][1] = UserMessage(BuildUserPrompt(CallerRequest(c)))
        /\ frames[c].iteration = Len(frames[c].answers)
        /\ frames[c].iteration = alone.iteration
        /\ frames[c].pc = alone.pc
        /\ frames[c].outcome = alone.outcome

\* C26: for any interleaving of two concurrent generate_portfolio calls on
\* the same service instance, each call's conversation holds only its own
\* prompt, assistant turns and tool results, its iteration counter counts
\* only its own LLM calls, and its outcome is the one it has when run alone
\* against the same LLM and tool answers.
C26_ConcurrentCallsIndependent ==
    \A c \in DOMAIN frames : frames[c].pc # "idle" => AsRunAlone(c)

\* Both calls are over, after passes that interleaved: caller 1 returned a
\* portfolio after two tool-use turns, caller 2 raised after one.
C26_Witness ==
    /\ DOMAIN frames = Callers
    /\ frames[1].pc = "done" /\ frames[2].pc = "done"
    /\ frames[1].iteration = 3 /\ ~Raised(frames[1].outcome)
    /\ frames[2].iteration = 2 /\ frames[2].outcome.exc = "ValueError"
    /\ frames[1].messages = 2 /\ frames[2].messages = 1
    /\ Len(heap[2]) = 5 /\ Len(heap[1]) = 3

====
